---- MODULE Spec2Model ----
(***************************************************************************)
(* Model of services/one_click_cleaner.py: OneClickCleaner.run and the     *)
(* four phases it drives (leave, delete history, delete contacts,          *)
(* archive), as asyncio tasks.  A step of the model is what one task runs  *)
(* between two suspension points (await of a transport call, of a sleep,   *)
(* of a semaphore, of gather).  Time is kept by relative timers: a         *)
(* sleeping task holds the time left to sleep, last_action_time holds the  *)
(* age of each identifier's last release, and Tick lets one unit pass      *)
(* when the event loop has nothing ready to run.                           *)
(*                                                                         *)
(* Spec          one call of run, every answer of the transport            *)
(* FairSpec      Spec under fair scheduling, for termination               *)
(* RenderSpec    Spec, and the two renderers called again on the report    *)
(* RerunSpec     run called again on the same cleaner                      *)
(* ScenarioSpec  the worked scenario of 5 groups, 2 channels, 3 direct     *)
(*               chats and 10 contacts, every call succeeding              *)
(* ReauthSpec    reauthorization.py: one call of recreate_session, every   *)
(*               answer of the two clients                                 *)
(***************************************************************************)
EXTENDS Integers, Sequences, FiniteSets, TLC

(* ---------------------------------------------------------------- bounds *)
\* configuration of the cleaner (constructor arguments)
LeaveConcurrency == 2
DeleteHistoryConcurrency == 1
DeleteContactsConcurrency == 1
ActionSleep == 1
MinPeerInterval == 2
\* inputs
MaxDialogs == 2
MaxFloodWait == 1
MaxArchive == 2
\* the answers of the contact and archive phases vary freely when the account
\* holds at most this many dialogs; with more dialogs these requests succeed
MaxTailDialogs == 1

\* how often run is called on one cleaner when its reuse is modelled
MaxRuns == 2
\* the worklist of the worked scenario: groups, channels, direct chats, contacts
ScenarioGroups == 5
ScenarioChannels == 2
ScenarioDirect == 3
ScenarioContacts == 10

\* batch_size of _delete_contacts
BatchSize == 100

VARIABLES
    env,                \* what the model lets the world do: [scope, run]
    reauth,             \* recreate_session of reauthorization.py: where it is,
                        \* its arguments, the calls made on the two clients
    dry_run,            \* argument of run
    revoke_default,     \* self.revoke_default
    pc,                 \* where run is
    dialogs,            \* the dialogs run fetched
    ltask,              \* the tasks of _leave_groups_and_channels
    dtask,              \* the tasks of _delete_chat_histories
    leave_semaphore,    \* value of self.leave_semaphore
    delete_semaphore,   \* value of self.delete_semaphore
    contacts_semaphore, \* value of self.contacts_semaphore
    stats,              \* self.stats
    actions,            \* self.actions, the ledger
    last_action_time,   \* self.last_action_time: id -> age of the release, -1 if absent
    contacts,           \* _delete_contacts: [n, i] number of contact ids, batch offset
    archive,            \* _archive_remaining_dialogs: [n, i, archived_count]
    rtimer,             \* time left of the sleep run itself is in
    cancelled,          \* the task running run was cancelled
    files,              \* the report files: name -> content
    result              \* what run returned

vars == << env, reauth, dry_run, revoke_default, pc, dialogs, ltask, dtask, leave_semaphore,
           delete_semaphore, contacts_semaphore, stats, actions,
           last_action_time, contacts, archive, rtimer, cancelled, files, result >>

(* ------------------------------------------------------------ exceptions *)
\* Exceptions a transport call can raise (all subclasses of Exception).
TransportErrors ==
    {"FloodWaitError", "ChannelPrivateError", "ChatWriteForbiddenError",
     "PeerIdInvalidError", "ConnectionError", "TimeoutError"}

\* asyncio.CancelledError derives from BaseException, not from Exception.
CancelledError == "CancelledError"

\* what a request answers in the model, by the place that sends it.
\* env.scope tells how much of the world a behaviour explores:
\*   "free"     one call of run, every answer below
\*   "rerun"    run is called up to MaxRuns times on the same cleaner; only
\*              groups are listed and a request succeeds or loses the connection
\*   "scenario" the worked scenario: its worklist, every request succeeds
RunOutcomes ==
    CASE env.scope = "scenario" -> {"ok"}
      [] env.scope = "rerun" -> {"ok", "ConnectionError"}
      [] OTHER -> {"ok", "FloodWaitError", "ConnectionError"}
LeaveOutcomes(tk) ==
    IF env.scope # "free" \/ tk.stage = "retry" \/ tk.pc = "get_me" THEN RunOutcomes
    ELSE {"ok", "FloodWaitError", "ChannelPrivateError", "PeerIdInvalidError"}
EraseOutcomes(tk) ==
    CASE env.scope # "free" -> RunOutcomes
      [] tk.stage = "retry" -> RunOutcomes \cup {"ChatWriteForbiddenError"}
      [] tk.stage = "fallback" ->
           {"ok", "FloodWaitError", "ChatWriteForbiddenError", "PeerIdInvalidError"}
      [] tk.stage = "revoke" ->
           {"ok", "FloodWaitError", "ChatWriteForbiddenError", "PeerIdInvalidError",
            "ConnectionError"}
      [] OTHER -> {"ok", "FloodWaitError", "PeerIdInvalidError", "ConnectionError",
                   "TimeoutError"}

\* `except Exception` matches e
IsException(e) == e \in TransportErrors \cup
                       {"ChatAdminRequiredError", "UserBannedInChannelError",
                        "MessageDeleteForbiddenError"}

\* str(e): the description of an exception (its name stands for its message);
\* an exception raised without arguments, as asyncio's TimeoutError is, has
\* the empty description
Str(e) == IF e = "TimeoutError" THEN "" ELSE e

None == "None"

(* --------------------------------------------------------------- dialogs *)
\* entity classes: "chat" is a Chat, "megagroup" and "broadcast" are Channels,
\* "user" and "bot" are Users
\* The dialogs the account may hold; identifiers are bare entity ids, which
\* Chat, Channel and User number independently of each other.
DialogPool ==
    << [id |-> 1, kind |-> "chat"],
       [id |-> 1, kind |-> "megagroup"],
       [id |-> 2, kind |-> "broadcast"],
       [id |-> 1, kind |-> "user"],
       [id |-> 3, kind |-> "bot"] >>

\* the worked scenario: groups (basic groups first, then megagroups), channels
\* and direct chats, numbered in this order; chats of them are basic groups
ScenarioDialogs(chats) ==
    [i \in 1..(ScenarioGroups + ScenarioChannels + ScenarioDirect) |->
        [id |-> i,
         kind |-> IF i <= chats THEN "chat"
                  ELSE IF i <= ScenarioGroups THEN "megagroup"
                  ELSE IF i <= ScenarioGroups + ScenarioChannels THEN "broadcast"
                  ELSE "user"]]

Ids == {DialogPool[i].id : i \in DOMAIN DialogPool}
         \cup 1..(ScenarioGroups + ScenarioChannels + ScenarioDirect)

\* the title of a dialog's entity (title, or first_name / username of a user)
Title(d) == d.kind \o "#" \o ToString(d.id)

RECURSIVE SubSeqOf(_, _)
\* the dialogs of DialogPool whose index is in S, in pool order
SubSeqOf(i, S) ==
    IF i > Len(DialogPool) THEN << >>
    ELSE IF i \in S THEN << DialogPool[i] >> \o SubSeqOf(i + 1, S)
    ELSE SubSeqOf(i + 1, S)

\* the dialogs of DialogPool a successful leave of this cleaner has removed
\* from the account: Left(ledger) is the set of their pool indices
Left(ledger) ==
    {i \in DOMAIN DialogPool :
        \E k \in DOMAIN ledger :
            /\ ledger[k].src[1] = "leave" /\ ledger[k].status = "success"
            /\ ledger[k].d = DialogPool[i]}

\* what client.get_dialogs() may return
Worklists ==
    CASE env.scope = "scenario" -> {ScenarioDialogs(c) : c \in 0..ScenarioGroups}
      [] env.scope = "rerun" ->
           { SubSeqOf(1, S) : S \in SUBSET ({1, 2} \ Left(actions)) }
      [] OTHER ->
           { SubSeqOf(1, S) : S \in { T \in SUBSET (DOMAIN DialogPool) :
                                        Cardinality(T) <= MaxDialogs } }

RECURSIVE SelectKinds(_, _)
SelectKinds(ds, K) ==
    IF ds = << >> THEN << >>
    ELSE IF Head(ds).kind \in K THEN << Head(ds) >> \o SelectKinds(Tail(ds), K)
    ELSE SelectKinds(Tail(ds), K)

\* run: categorisation of the dialogs
GroupsOf(ds) == SelectKinds(ds, {"chat", "megagroup"})
ChannelsOf(ds) == SelectKinds(ds, {"broadcast"})
UsersOf(ds) == SelectKinds(ds, {"user"})
BotsOf(ds) == SelectKinds(ds, {"bot"})

(* ------------------------------------------------------------- helpers *)
\* (variant: the increment writes back one more than a value read before any
\*  task ran, as if the read and the write were separated by an await)
IncStale(s, k) == [s EXCEPT ![k] = 1]
\* self.stats[k] += 1
Inc(s, k) == [s EXCEPT ![k] = @ + 1]
Add(s, k, n) == [s EXCEPT ![k] = @ + n]

ZeroStats ==
    [groups_left |-> 0, channels_left |-> 0, histories_deleted |-> 0,
     contacts_deleted |-> 0, dialogs_closed |-> 0, errors |-> 0, skipped |-> 0]

\* CleanupAction(chat_id, title, chat_type): status 'pending', no error, nothing
\* done; the timestamp is taken when the task builds the action
CleanupAction(chat_id, title, chat_type) ==
    [chat_id |-> chat_id, title |-> title, chat_type |-> chat_type,
     actions_done |-> << >>, status |-> "pending", error |-> None,
     timestamp |-> ""]

\* a coroutine of a phase wrapped in a task by gather, not yet run
NewTask(d, chat_type) ==
    [d |-> d, pc |-> "waiting", action |-> CleanupAction(d.id, Title(d), chat_type),
     stage |-> "first", timer |-> 0, must_cancel |-> FALSE, exc |-> None,
     calls |-> 0, rcalls |-> 0, outs |-> << >>, since |-> -1]

\* the ledger entry of a task's action (src tells which task appended it, d for
\* which dialog, run in which call of run)
Entry(phase, t, tk) ==
    [src |-> << phase, t >>, d |-> tk.d, run |-> env.run,
     chat_id |-> tk.action.chat_id, title |-> tk.action.title,
     chat_type |-> tk.action.chat_type, actions_done |-> tk.action.actions_done,
     status |-> tk.action.status, error |-> tk.action.error,
     timestamp |-> tk.action.timestamp]

\* (variant: acquire and release without `async with`: a holder that is
\*  cancelled keeps its slot)
ReleaseOnCancelSkipped(value) == value
\* __aexit__ of `async with semaphore` when CancelledError leaves the block
ReleaseOnCancel(value) == value + 1

\* the initial values of the three semaphores
LeaveSemaphoreInit == LeaveConcurrency
\* (variant: the semaphore is built one slot too wide)
DeleteSemaphoreInitWide == DeleteHistoryConcurrency + 1
\* (variant: the semaphore is built one slot too narrow; a lane of one slot
\*  then has none, and its tasks wait for ever)
DeleteSemaphoreInitNarrow == DeleteHistoryConcurrency - 1
DeleteSemaphoreInit == DeleteHistoryConcurrency
ContactsSemaphoreInit == DeleteContactsConcurrency

\* datetime.now() as the timestamp of a new action: the number of actions this
\* cleaner built before it (every action built is in the ledger or in a task
\* that is inside its try statement)
InTry(tk) == tk.pc \in {"rate_wait", "get_me", "request", "flood_sleep"}
Now ==
    Len(actions) + Cardinality({t \in DOMAIN ltask : InTry(ltask[t])})
                 + Cardinality({t \in DOMAIN dtask : InTry(dtask[t])})

\* a task enters _wait_for_rate_limit: since keeps the age of the release that
\* was the identifier's last one at the call (-1 if there was none)
Called(tk) ==
    [tk EXCEPT !.action.timestamp = ToString(Now),
               !.since = last_action_time[tk.d.id]]

\* asyncio.Semaphore wakes its waiters in the order they came, which is the
\* order gather started the tasks in: t is the first task still waiting
FirstWaiting(tasks, t) == \A u \in DOMAIN tasks : u < t => tasks[u].pc # "waiting"

\* (variant: the sleep is one unit shorter than the time left of the interval)
RateLimitSleepShort(id) ==
    IF last_action_time[id] >= 0 /\ last_action_time[id] < MinPeerInterval
    THEN MinPeerInterval - last_action_time[id] - 1
    ELSE 0
\* (variant: one release time for all identifiers: a caller waits out the
\*  interval after the latest release of any identifier)
RateLimitSleepGlobal(id) ==
    IF \E j \in DOMAIN last_action_time :
           last_action_time[j] >= 0 /\ last_action_time[j] < MinPeerInterval
    THEN MinPeerInterval
    ELSE 0
\* _wait_for_rate_limit: must the caller sleep, and for how long
RateLimitSleep(id) ==
    IF last_action_time[id] >= 0 /\ last_action_time[id] < MinPeerInterval
    THEN MinPeerInterval - last_action_time[id]
    ELSE 0

\* recreate_session before it is called (and while the cleaner runs)
ReauthIdle ==
    [pc |-> "idle", two_fa_password |-> FALSE, old_client |-> << >>,
     new_client |-> << >>, result |-> [ok |-> FALSE, why |-> ""]]

(* ---------------------------------------------------------------- Init *)
Init ==
    /\ env = [scope |-> "free", run |-> 1, saves |-> 0]
    /\ reauth = ReauthIdle
    /\ dry_run \in BOOLEAN
    /\ revoke_default \in BOOLEAN
    /\ pc = "get_dialogs"
    /\ dialogs = << >>
    /\ ltask = << >>
    /\ dtask = << >>
    /\ leave_semaphore = LeaveSemaphoreInit
    /\ delete_semaphore = DeleteSemaphoreInit
    /\ contacts_semaphore = ContactsSemaphoreInit
    /\ stats = ZeroStats
    /\ actions = << >>
    /\ last_action_time = [i \in Ids |-> -1]
    /\ contacts = [n |-> 0, i |-> 0]
    /\ archive = [n |-> 0, i |-> 0, archived_count |-> 0]
    /\ rtimer = 0
    /\ cancelled = FALSE
    /\ files = << >>
    /\ result = [success |-> FALSE, keys |-> {}]

(* ----------------------------------------------------------------- run *)
\* what the except clause of run returns
FailureResult == [success |-> FALSE, keys |-> {"success", "error", "statistics"}]

\* what run returns after the reports were saved
SuccessResult ==
    [success |-> TRUE,
     keys |-> {"success", "elapsed_time", "statistics", "report_path", "csv_path"}]

\* (variant: run catches `except RPCError` only)
RunCatchesRPCOnly(e) ==
    e \in {"FloodWaitError", "ChannelPrivateError", "ChatWriteForbiddenError",
           "PeerIdInvalidError"}
\* run's `except Exception`: does it catch e
RunCatches(e) == IsException(e)

\* an exception reaches the try statement of run
RunRaises(e) ==
    /\ pc' = IF RunCatches(e) THEN "returned" ELSE "raised"
    /\ result' = IF RunCatches(e) THEN FailureResult ELSE result

\* run, step 1: get_dialogs answers; the dialogs are categorised
GetDialogsReturns ==
    /\ pc = "get_dialogs"
    /\ \E o \in RunOutcomes :
         IF o = "ok"
         THEN /\ \E wl \in Worklists : dialogs' = wl
              /\ pc' = "start_leave"
              /\ UNCHANGED result
         ELSE /\ RunRaises(o)
              /\ UNCHANGED dialogs
    /\ UNCHANGED << env, reauth, dry_run, revoke_default, ltask, dtask, leave_semaphore,
                    delete_semaphore, contacts_semaphore, stats, actions,
                    last_action_time, contacts, archive, rtimer, cancelled, files >>

(* --------------------------------------------------- phase 1: leave *)
\* _leave_single_entity: chat_type of the entity
LeaveChatType(kind) ==
    IF kind \in {"megagroup", "broadcast"}
    THEN (IF kind = "broadcast" THEN "channel" ELSE "group")
    ELSE "group"

\* the first request of a leave attempt: get_me for a Chat, LeaveChannelRequest else
LeaveIssue(tk) ==
    [tk EXCEPT !.pc = IF tk.d.kind = "chat" THEN "get_me" ELSE "request",
               !.timer = 0,
               !.calls = @ + 1,
               !.rcalls = IF tk.stage = "retry" THEN @ + 1 ELSE @]

RECURSIVE MakeTasks(_, _)
MakeTasks(ds, phase) ==
    IF ds = << >> THEN << >>
    ELSE << NewTask(Head(ds),
                    IF phase = "leave" THEN LeaveChatType(Head(ds).kind)
                    ELSE IF Head(ds).kind = "bot" THEN "bot" ELSE "user") >>
         \o MakeTasks(Tail(ds), phase)

\* run, step 2 and _leave_groups_and_channels up to the await of gather
StartLeave ==
    /\ pc = "start_leave"
    /\ IF dry_run
       THEN pc' = "start_erase" /\ UNCHANGED ltask
       ELSE LET all_entities == GroupsOf(dialogs) \o ChannelsOf(dialogs) IN
            /\ ltask' = MakeTasks(all_entities, "leave")
            /\ pc' = IF all_entities = << >> THEN "start_erase" ELSE "leave_gather"
    /\ UNCHANGED << env, reauth, dry_run, revoke_default, dialogs, dtask, leave_semaphore,
                    delete_semaphore, contacts_semaphore, stats, actions,
                    last_action_time, contacts, archive, rtimer, cancelled,
                    files, result >>

\* (variant: run waits for the first task only, as with FIRST_COMPLETED)
GatherFirstCompleted(tasks) == \E t \in DOMAIN tasks : tasks[t].pc = "done"
\* asyncio.gather(*tasks, return_exceptions=True) is done when every task is
GatherDone(tasks) == \A t \in DOMAIN tasks : tasks[t].pc = "done"

\* _leave_groups_and_channels: gather returns, or raises CancelledError in run
LeaveGatherReturns ==
    /\ pc = "leave_gather"
    /\ GatherDone(ltask)
    /\ IF cancelled
       THEN RunRaises(CancelledError)
       ELSE pc' = "start_erase" /\ UNCHANGED result
    /\ UNCHANGED << env, reauth, dry_run, revoke_default, dialogs, ltask, dtask,
                    leave_semaphore, delete_semaphore, contacts_semaphore, stats,
                    actions, last_action_time, contacts, archive, rtimer,
                    cancelled, files >>

\* (variant: the handler of the retry takes FloodWaitError back to the sleep)
LeaveExceptRetryLoop(e, stage) ==
    IF e = "FloodWaitError" THEN "flood"
    ELSE IF stage = "retry"
    THEN (IF IsException(e) THEN "retry_failed" ELSE "propagate")
    ELSE IF e \in {"ChatAdminRequiredError", "UserBannedInChannelError",
                   "ChannelPrivateError"} THEN "permission"
    ELSE IF IsException(e) THEN "other"
    ELSE "propagate"
\* (variant: no catch-all `except Exception` clause after the permission errors)
LeaveExceptNoCatchAll(e, stage) ==
    IF stage = "retry"
    THEN (IF IsException(e) THEN "retry_failed" ELSE "propagate")
    ELSE IF e = "FloodWaitError" THEN "flood"
    ELSE IF e \in {"ChatAdminRequiredError", "UserBannedInChannelError",
                   "ChannelPrivateError"} THEN "permission"
    ELSE "propagate"
\* (variant: a permission error is waited out and retried like a throttle signal)
LeaveExceptRetryDenied(e, stage) ==
    IF stage = "retry"
    THEN (IF IsException(e) THEN "retry_failed" ELSE "propagate")
    ELSE IF e \in {"FloodWaitError", "ChatAdminRequiredError",
                   "UserBannedInChannelError", "ChannelPrivateError"} THEN "flood"
    ELSE IF IsException(e) THEN "other"
    ELSE "propagate"
\* which except clause of _leave_single_entity takes e
\* ("retry": the except Exception inside the FloodWaitError handler)
LeaveExcept(e, stage) ==
    IF stage = "retry"
    THEN (IF IsException(e) THEN "retry_failed" ELSE "propagate")
    ELSE IF e = "FloodWaitError" THEN "flood"
    ELSE IF e \in {"ChatAdminRequiredError", "UserBannedInChannelError",
                   "ChannelPrivateError"} THEN "permission"
    ELSE IF IsException(e) THEN "other"
    ELSE "propagate"

\* (variant: the append is the last statement of the try body, not a finally)
LeaveAppendInTry(t, tk) ==
    /\ actions' = IF tk.action.status = "success"
                  THEN Append(actions, Entry("leave", t, tk))
                  ELSE actions
    /\ ltask' = [ltask EXCEPT ![t] = [tk EXCEPT !.pc = "pace", !.timer = ActionSleep]]
\* (variant: the ledger receives a copy of the action made when it was created,
\*  so what the handlers write later does not reach it)
LeaveAppendEarlyCopy(t, tk) ==
    /\ actions' = Append(actions,
                     Entry("leave", t, [tk EXCEPT !.action =
                         CleanupAction(tk.action.chat_id, tk.action.title,
                                       tk.action.chat_type)]))
    /\ ltask' = [ltask EXCEPT ![t] = [tk EXCEPT !.pc = "pace", !.timer = ActionSleep]]
\* the finally clause: the action is appended, the pacing sleep starts
LeaveFinally(t, tk) ==
    /\ actions' = Append(actions, Entry("leave", t, tk))
    /\ ltask' = [ltask EXCEPT ![t] = [tk EXCEPT !.pc = "pace", !.timer = ActionSleep]]

\* (variant: the status is set but the sub-action is not appended)
LeaveSucceededNoSub(a) == [a EXCEPT !.status = "success"]
\* the statements after a successful leave request
LeaveSucceeded(a) ==
    [a EXCEPT !.actions_done = Append(@, "left"), !.status = "success"]

\* (variant: every entity left is counted as a group)
LeaveCounterGroupsOnly(a) == "groups_left"
\* the counter a successful leave increments
LeaveCounter(a) == IF a.chat_type = "channel" THEN "channels_left" ELSE "groups_left"

\* the answer o (or the exception o) reaches task t at an await inside its try
LeaveResume(t, tk0, o) ==
    LET tk == [tk0 EXCEPT !.outs = Append(@, o)]
        how == IF o = "ok" THEN "ok" ELSE LeaveExcept(o, tk.stage)
    IN  CASE how = "ok" /\ tk.pc = "get_me" ->
               /\ ltask' = [ltask EXCEPT ![t] =
                     [tk EXCEPT !.pc = "request", !.calls = @ + 1,
                                !.rcalls = IF tk.stage = "retry" THEN @ + 1 ELSE @]]
               /\ UNCHANGED << stats, actions >>
          [] how = "ok" /\ tk.pc # "get_me" ->
               /\ stats' = Inc(stats, LeaveCounter(tk.action))
               /\ LeaveFinally(t, [tk EXCEPT !.action = LeaveSucceeded(@)])
          [] how = "flood" ->
               /\ \E w \in 1..MaxFloodWait :
                    ltask' = [ltask EXCEPT ![t] =
                        [tk EXCEPT !.pc = "flood_sleep", !.timer = w]]
               /\ UNCHANGED << stats, actions >>
          [] how = "permission" ->
               /\ stats' = Inc(stats, "errors")
               /\ LeaveFinally(t, [tk EXCEPT !.action.status = "failed",
                                             !.action.error = "Permission error: " \o o])
          [] how = "other" ->
               /\ stats' = Inc(stats, "errors")
               /\ LeaveFinally(t, [tk EXCEPT !.action.status = "failed",
                                             !.action.error = Str(o)])
          [] how = "retry_failed" ->
               /\ stats' = Inc(stats, "errors")
               /\ LeaveFinally(t, [tk EXCEPT !.action.status = "failed",
                                             !.action.error = "Retry failed: " \o Str(o)])
          [] how = "propagate" ->
               /\ UNCHANGED stats
               /\ LeaveFinally(t, [tk EXCEPT !.exc = o])

\* `async with self.leave_semaphore`, the creation of the action and
\* _wait_for_rate_limit up to its sleep, or up to the first request
LeaveAcquire(t) ==
    /\ pc = "leave_gather"
    /\ ltask[t].pc = "waiting"
    /\ ~ltask[t].must_cancel
    /\ FirstWaiting(ltask, t)
    /\ leave_semaphore > 0
    /\ leave_semaphore' = leave_semaphore - 1
    /\ LET id == ltask[t].d.id
           tk == Called(ltask[t])
       IN
         IF RateLimitSleep(id) > 0
         THEN /\ ltask' = [ltask EXCEPT ![t] =
                    [tk EXCEPT !.pc = "rate_wait", !.timer = RateLimitSleep(id)]]
              /\ UNCHANGED last_action_time
         ELSE /\ ltask' = [ltask EXCEPT ![t] = LeaveIssue(tk)]
              /\ last_action_time' = [last_action_time EXCEPT ![id] = 0]
    /\ UNCHANGED << env, reauth, dry_run, revoke_default, pc, dialogs, dtask, delete_semaphore,
                    contacts_semaphore, stats, actions, contacts, archive, rtimer,
                    cancelled, files, result >>

\* _wait_for_rate_limit after its sleep: the release time is recorded
LeaveRateWaitDone(t) ==
    /\ ltask[t].pc = "rate_wait"
    /\ ltask[t].timer = 0
    /\ ~ltask[t].must_cancel
    /\ ltask' = [ltask EXCEPT ![t] = LeaveIssue(@)]
    /\ last_action_time' = [last_action_time EXCEPT ![ltask[t].d.id] = 0]
    /\ UNCHANGED << env, reauth, dry_run, revoke_default, pc, dialogs, dtask, leave_semaphore,
                    delete_semaphore, contacts_semaphore, stats, actions, contacts,
                    archive, rtimer, cancelled, files, result >>

\* a transport call of the task answers
LeaveCallReturns(t) ==
    /\ ltask[t].pc \in {"get_me", "request"}
    /\ ~ltask[t].must_cancel
    /\ \E o \in LeaveOutcomes(ltask[t]) : LeaveResume(t, ltask[t], o)
    /\ UNCHANGED << env, reauth, dry_run, revoke_default, pc, dialogs, dtask, leave_semaphore,
                    delete_semaphore, contacts_semaphore, last_action_time,
                    contacts, archive, rtimer, cancelled, files, result >>

\* the FloodWaitError handler after its sleep: the retry is issued
LeaveFloodSleepDone(t) ==
    /\ ltask[t].pc = "flood_sleep"
    /\ ltask[t].timer = 0
    /\ ~ltask[t].must_cancel
    /\ ltask' = [ltask EXCEPT ![t] = LeaveIssue([@ EXCEPT !.stage = "retry"])]
    /\ UNCHANGED << env, reauth, dry_run, revoke_default, pc, dialogs, dtask, leave_semaphore,
                    delete_semaphore, contacts_semaphore, stats, actions,
                    last_action_time, contacts, archive, rtimer, cancelled,
                    files, result >>

\* the pacing sleep of the finally clause is over: the semaphore is released
LeavePaceDone(t) ==
    /\ ltask[t].pc = "pace"
    /\ ltask[t].timer = 0
    /\ ~ltask[t].must_cancel
    /\ ltask' = [ltask EXCEPT ![t] = [@ EXCEPT !.pc = "done"]]
    /\ leave_semaphore' = leave_semaphore + 1
    /\ UNCHANGED << env, reauth, dry_run, revoke_default, pc, dialogs, dtask, delete_semaphore,
                    contacts_semaphore, stats, actions, last_action_time, contacts,
                    archive, rtimer, cancelled, files, result >>

\* CancelledError is thrown into the task where it is suspended
LeaveCancelled(t) ==
    /\ ltask[t].must_cancel
    /\ ltask[t].pc # "done"
    /\ LET tk == [ltask[t] EXCEPT !.must_cancel = FALSE] IN
         CASE tk.pc = "waiting" ->
                /\ ltask' = [ltask EXCEPT ![t] =
                      [tk EXCEPT !.pc = "done", !.exc = CancelledError]]
                /\ UNCHANGED << stats, actions, leave_semaphore >>
           [] tk.pc = "pace" ->
                /\ ltask' = [ltask EXCEPT ![t] =
                      [tk EXCEPT !.pc = "done", !.exc = CancelledError, !.timer = 0]]
                /\ leave_semaphore' = ReleaseOnCancel(leave_semaphore)
                /\ UNCHANGED << stats, actions >>
           [] tk.pc \in {"rate_wait", "get_me", "request", "flood_sleep"} ->
                /\ LeaveResume(t, tk, CancelledError)
                /\ UNCHANGED leave_semaphore
    /\ UNCHANGED << env, reauth, dry_run, revoke_default, pc, dialogs, dtask, delete_semaphore,
                    contacts_semaphore, last_action_time, contacts, archive, rtimer,
                    cancelled, files, result >>

(* ------------------------------------------ phase 2: delete history *)
\* run, step 3 and _delete_chat_histories up to the await of gather
StartErase ==
    /\ pc = "start_erase"
    /\ IF dry_run
       THEN pc' = "start_contacts" /\ UNCHANGED dtask
       ELSE LET ds == UsersOf(dialogs) \o BotsOf(dialogs) IN
            /\ dtask' = MakeTasks(ds, "erase")
            /\ pc' = IF ds = << >> THEN "start_contacts" ELSE "erase_gather"
    /\ UNCHANGED << env, reauth, dry_run, revoke_default, dialogs, ltask, leave_semaphore,
                    delete_semaphore, contacts_semaphore, stats, actions,
                    last_action_time, contacts, archive, rtimer, cancelled,
                    files, result >>

\* _delete_chat_histories: gather returns, or raises CancelledError in run
EraseGatherReturns ==
    /\ pc = "erase_gather"
    /\ GatherDone(dtask)
    /\ IF cancelled
       THEN RunRaises(CancelledError)
       ELSE pc' = "start_contacts" /\ UNCHANGED result
    /\ UNCHANGED << env, reauth, dry_run, revoke_default, dialogs, ltask, dtask,
                    leave_semaphore, delete_semaphore, contacts_semaphore, stats,
                    actions, last_action_time, contacts, archive, rtimer,
                    cancelled, files >>

\* (variant: the handler of the retry takes FloodWaitError back to the sleep)
EraseExceptRetryLoop(e, stage) ==
    IF stage = "revoke" /\
       e \in {"ChatWriteForbiddenError", "MessageDeleteForbiddenError"}
    THEN "fallback"
    ELSE IF e = "FloodWaitError" THEN "flood"
    ELSE IF stage = "retry"
    THEN (IF IsException(e) THEN "retry_failed" ELSE "propagate")
    ELSE IF e = "PeerIdInvalidError" THEN "skipped"
    ELSE IF IsException(e) THEN "other"
    ELSE "propagate"
\* (variant: a permission error on the fallback falls back again)
EraseExceptFallbackLoop(e, stage) ==
    IF stage = "retry"
    THEN (IF IsException(e) THEN "retry_failed" ELSE "propagate")
    ELSE IF stage \in {"revoke", "fallback"} /\
            e \in {"ChatWriteForbiddenError", "MessageDeleteForbiddenError"}
         THEN "fallback"
    ELSE IF e = "FloodWaitError" THEN "flood"
    ELSE IF e = "PeerIdInvalidError" THEN "skipped"
    ELSE IF IsException(e) THEN "other"
    ELSE "propagate"
\* (variant: an unclassified error is counted as skipped, like an invalid peer)
EraseExceptOtherSkipped(e, stage) ==
    IF stage = "retry"
    THEN (IF IsException(e) THEN "retry_failed" ELSE "propagate")
    ELSE IF stage = "revoke" /\
            e \in {"ChatWriteForbiddenError", "MessageDeleteForbiddenError"}
         THEN "fallback"
    ELSE IF e = "FloodWaitError" THEN "flood"
    ELSE IF IsException(e) THEN "skipped"
    ELSE "propagate"
\* (variant: a permission error raised by the retry falls back once more)
EraseExceptRetryFallback(e, stage) ==
    IF e \in {"ChatWriteForbiddenError", "MessageDeleteForbiddenError"}
       /\ stage \in {"revoke", "retry"}
    THEN "fallback"
    ELSE IF stage = "retry"
    THEN (IF IsException(e) THEN "retry_failed" ELSE "propagate")
    ELSE IF e = "FloodWaitError" THEN "flood"
    ELSE IF e = "PeerIdInvalidError" THEN "skipped"
    ELSE IF IsException(e) THEN "other"
    ELSE "propagate"
\* which except clause of _delete_single_history takes e
\* ("revoke": the request with revoke=True, inside the inner try;
\*  "retry": the except Exception inside the FloodWaitError handler)
EraseExcept(e, stage) ==
    IF stage = "retry"
    THEN (IF IsException(e) THEN "retry_failed" ELSE "propagate")
    ELSE IF stage = "revoke" /\
            e \in {"ChatWriteForbiddenError", "MessageDeleteForbiddenError"}
         THEN "fallback"
    ELSE IF e = "FloodWaitError" THEN "flood"
    ELSE IF e = "PeerIdInvalidError" THEN "skipped"
    ELSE IF IsException(e) THEN "other"
    ELSE "propagate"

\* a DeleteHistoryRequest is sent
EraseIssue(tk, stage) ==
    [tk EXCEPT !.pc = "request", !.stage = stage, !.timer = 0,
               !.calls = @ + 1,
               !.rcalls = IF stage = "retry" THEN @ + 1 ELSE @]

\* (variant: the retry appends the sub-action the throttled attempt had
\*  appended before it sent its request)
EraseSucceededTwice(a, stage) ==
    CASE stage = "revoke" ->
           [a EXCEPT !.actions_done = @ \o << "history_deleted", "revoked" >>,
                     !.status = "success"]
      [] stage = "fallback" ->
           [a EXCEPT !.actions_done = Append(@, "history_deleted"),
                     !.status = "partial",
                     !.error = "Partial: only self messages deleted"]
      [] stage = "retry" ->
           [a EXCEPT !.actions_done = @ \o << "history_deleted", "history_deleted" >>,
                     !.status = "success"]
      [] OTHER ->
           [a EXCEPT !.actions_done = Append(@, "history_deleted"),
                     !.status = "success"]
\* the statements after a successful DeleteHistoryRequest, by where it was sent
EraseSucceeded(a, stage) ==
    CASE stage = "revoke" ->
           [a EXCEPT !.actions_done = @ \o << "history_deleted", "revoked" >>,
                     !.status = "success"]
      [] stage = "fallback" ->
           [a EXCEPT !.actions_done = Append(@, "history_deleted"),
                     !.status = "partial",
                     !.error = "Partial: only self messages deleted"]
      [] OTHER ->
           [a EXCEPT !.actions_done = Append(@, "history_deleted"),
                     !.status = "success"]

\* the finally clause: the action is appended, the pacing sleep starts
EraseFinally(t, tk) ==
    /\ actions' = Append(actions, Entry("erase", t, tk))
    /\ dtask' = [dtask EXCEPT ![t] = [tk EXCEPT !.pc = "pace", !.timer = ActionSleep]]

\* the answer o (or the exception o) reaches task t at an await inside its try
EraseResume(t, tk0, o) ==
    LET tk == [tk0 EXCEPT !.outs = Append(@, o)]
        how == IF o = "ok" THEN "ok" ELSE EraseExcept(o, tk.stage)
    IN  CASE how = "ok" ->
               /\ stats' = Inc(stats, "histories_deleted")
               /\ EraseFinally(t, [tk EXCEPT !.action = EraseSucceeded(@, tk.stage)])
          [] how = "fallback" ->
               /\ dtask' = [dtask EXCEPT ![t] = EraseIssue(tk, "fallback")]
               /\ UNCHANGED << stats, actions >>
          [] how = "flood" ->
               /\ \E w \in 1..MaxFloodWait :
                    dtask' = [dtask EXCEPT ![t] =
                        [tk EXCEPT !.pc = "flood_sleep", !.timer = w]]
               /\ UNCHANGED << stats, actions >>
          [] how = "skipped" ->
               /\ stats' = Inc(stats, "skipped")
               /\ EraseFinally(t, [tk EXCEPT !.action.status = "skipped",
                                             !.action.error = "Invalid peer"])
          [] how = "other" ->
               /\ stats' = Inc(stats, "errors")
               /\ EraseFinally(t, [tk EXCEPT !.action.status = "failed",
                                             !.action.error = Str(o)])
          [] how = "retry_failed" ->
               /\ stats' = Inc(stats, "errors")
               /\ EraseFinally(t, [tk EXCEPT !.action.status = "failed",
                                             !.action.error = "Retry failed: " \o Str(o)])
          [] how = "propagate" ->
               /\ UNCHANGED stats
               /\ EraseFinally(t, [tk EXCEPT !.exc = o])

\* the first request of _delete_single_history
EraseFirst(tk) == EraseIssue(tk, IF revoke_default THEN "revoke" ELSE "plain")

\* `async with self.delete_semaphore`, the creation of the action and
\* _wait_for_rate_limit up to its sleep, or up to the first request
EraseAcquire(t) ==
    /\ pc = "erase_gather"
    /\ dtask[t].pc = "waiting"
    /\ ~dtask[t].must_cancel
    /\ FirstWaiting(dtask, t)
    /\ delete_semaphore > 0
    /\ delete_semaphore' = delete_semaphore - 1
    /\ LET id == dtask[t].d.id
           tk == Called(dtask[t])
       IN
         IF RateLimitSleep(id) > 0
         THEN /\ dtask' = [dtask EXCEPT ![t] =
                    [tk EXCEPT !.pc = "rate_wait", !.timer = RateLimitSleep(id)]]
              /\ UNCHANGED last_action_time
         ELSE /\ dtask' = [dtask EXCEPT ![t] = EraseFirst(tk)]
              /\ last_action_time' = [last_action_time EXCEPT ![id] = 0]
    /\ UNCHANGED << env, reauth, dry_run, revoke_default, pc, dialogs, ltask, leave_semaphore,
                    contacts_semaphore, stats, actions, contacts, archive, rtimer,
                    cancelled, files, result >>

\* _wait_for_rate_limit after its sleep: the release time is recorded
EraseRateWaitDone(t) ==
    /\ dtask[t].pc = "rate_wait"
    /\ dtask[t].timer = 0
    /\ ~dtask[t].must_cancel
    /\ dtask' = [dtask EXCEPT ![t] = EraseFirst(@)]
    /\ last_action_time' = [last_action_time EXCEPT ![dtask[t].d.id] = 0]
    /\ UNCHANGED << env, reauth, dry_run, revoke_default, pc, dialogs, ltask, leave_semaphore,
                    delete_semaphore, contacts_semaphore, stats, actions, contacts,
                    archive, rtimer, cancelled, files, result >>

\* a DeleteHistoryRequest of the task answers
EraseCallReturns(t) ==
    /\ dtask[t].pc = "request"
    /\ ~dtask[t].must_cancel
    /\ \E o \in EraseOutcomes(dtask[t]) : EraseResume(t, dtask[t], o)
    /\ UNCHANGED << env, reauth, dry_run, revoke_default, pc, dialogs, ltask, leave_semaphore,
                    delete_semaphore, contacts_semaphore, last_action_time,
                    contacts, archive, rtimer, cancelled, files, result >>

\* the FloodWaitError handler after its sleep: the retry (revoke=False) is sent
EraseFloodSleepDone(t) ==
    /\ dtask[t].pc = "flood_sleep"
    /\ dtask[t].timer = 0
    /\ ~dtask[t].must_cancel
    /\ dtask' = [dtask EXCEPT ![t] = EraseIssue(@, "retry")]
    /\ UNCHANGED << env, reauth, dry_run, revoke_default, pc, dialogs, ltask, leave_semaphore,
                    delete_semaphore, contacts_semaphore, stats, actions,
                    last_action_time, contacts, archive, rtimer, cancelled,
                    files, result >>

\* the pacing sleep of the finally clause is over: the semaphore is released
ErasePaceDone(t) ==
    /\ dtask[t].pc = "pace"
    /\ dtask[t].timer = 0
    /\ ~dtask[t].must_cancel
    /\ dtask' = [dtask EXCEPT ![t] = [@ EXCEPT !.pc = "done"]]
    /\ delete_semaphore' = delete_semaphore + 1
    /\ UNCHANGED << env, reauth, dry_run, revoke_default, pc, dialogs, ltask, leave_semaphore,
                    contacts_semaphore, stats, actions, last_action_time, contacts,
                    archive, rtimer, cancelled, files, result >>

\* CancelledError is thrown into the task where it is suspended
EraseCancelled(t) ==
    /\ dtask[t].must_cancel
    /\ dtask[t].pc # "done"
    /\ LET tk == [dtask[t] EXCEPT !.must_cancel = FALSE] IN
         CASE tk.pc = "waiting" ->
                /\ dtask' = [dtask EXCEPT ![t] =
                      [tk EXCEPT !.pc = "done", !.exc = CancelledError]]
                /\ UNCHANGED << stats, actions, delete_semaphore >>
           [] tk.pc = "pace" ->
                /\ dtask' = [dtask EXCEPT ![t] =
                      [tk EXCEPT !.pc = "done", !.exc = CancelledError, !.timer = 0]]
                /\ delete_semaphore' = ReleaseOnCancel(delete_semaphore)
                /\ UNCHANGED << stats, actions >>
           [] tk.pc \in {"rate_wait", "request", "flood_sleep"} ->
                /\ EraseResume(t, tk, CancelledError)
                /\ UNCHANGED delete_semaphore
    /\ UNCHANGED << env, reauth, dry_run, revoke_default, pc, dialogs, ltask, leave_semaphore,
                    contacts_semaphore, last_action_time, contacts, archive, rtimer,
                    cancelled, files, result >>

(* ----------------------------------------- phase 3: delete contacts *)
\* what the requests of the contact and archive phases answer in the model
TailOutcomes ==
    IF env.scope = "free" /\ Len(dialogs) <= MaxTailDialogs THEN RunOutcomes
    ELSE {"ok"}

\* how many contacts GetContactsRequest may list
ContactCounts ==
    CASE env.scope = "scenario" -> {ScenarioContacts}
      [] env.scope = "rerun" -> {0}
      [] OTHER -> IF Len(dialogs) <= MaxTailDialogs THEN {0, 1, BatchSize + 1}
                  ELSE {1}

\* how many dialogs get_dialogs may list in the archive phase
ArchiveCounts ==
    IF env.scope # "free" \/ Len(dialogs) <= MaxTailDialogs THEN 0..MaxArchive
    ELSE {MaxArchive}

Min(a, b) == IF a < b THEN a ELSE b

\* (variant: every batch is counted as a full one)
BatchLenFull(c) == BatchSize
\* len(batch) of the batch that starts at offset i
BatchLen(c) == Min(BatchSize, c.n - c.i)

\* (variant: _delete_contacts has the FloodWaitError handler only, no
\*  `except Exception` clause)
ContactsCatchesFlood(e) == e = "FloodWaitError"
\* the handlers of _delete_contacts are `except Exception`
ContactsCatches(e) == IsException(e)

\* run, step 4 and _delete_contacts up to the await of GetContactsRequest
StartContacts ==
    /\ pc = "start_contacts"
    /\ IF dry_run
       THEN pc' = "start_archive" /\ UNCHANGED contacts_semaphore
       ELSE /\ contacts_semaphore > 0
            /\ contacts_semaphore' = contacts_semaphore - 1
            /\ pc' = "get_contacts"
    /\ UNCHANGED << env, reauth, dry_run, revoke_default, dialogs, ltask, dtask, leave_semaphore,
                    delete_semaphore, stats, actions, last_action_time, contacts,
                    archive, rtimer, cancelled, files, result >>

\* GetContactsRequest answers
GetContactsReturns ==
    /\ pc = "get_contacts"
    /\ \E o \in TailOutcomes :
         IF o = "ok"
         THEN \E n \in ContactCounts :
                /\ contacts' = [n |-> n, i |-> 0]
                /\ IF n = 0
                   THEN pc' = "start_archive" /\ contacts_semaphore' = contacts_semaphore + 1
                   ELSE pc' = "delete_batch" /\ UNCHANGED contacts_semaphore
                /\ UNCHANGED << stats, result >>
         ELSE /\ IF ContactsCatches(o)
                 THEN /\ stats' = Inc(stats, "errors")
                      /\ pc' = "start_archive"
                      /\ UNCHANGED result
                 ELSE RunRaises(o) /\ UNCHANGED stats
              /\ contacts_semaphore' = contacts_semaphore + 1
              /\ UNCHANGED contacts
    /\ UNCHANGED << env, reauth, dry_run, revoke_default, dialogs, ltask, dtask, leave_semaphore,
                    delete_semaphore, actions, last_action_time, archive, rtimer,
                    cancelled, files >>

\* the for loop of _delete_contacts moves to the next batch, or ends
NextBatch ==
    /\ contacts' = [contacts EXCEPT !.i = @ + BatchSize]
    /\ IF contacts.i + BatchSize < contacts.n
       THEN pc' = "delete_batch" /\ UNCHANGED contacts_semaphore
       ELSE pc' = "start_archive" /\ contacts_semaphore' = contacts_semaphore + 1
    /\ UNCHANGED result

\* an exception no handler of _delete_contacts takes leaves the `async with`
ContactsRaises(e) ==
    /\ RunRaises(e)
    /\ contacts_semaphore' = contacts_semaphore + 1
    /\ UNCHANGED contacts

\* DeleteContactsRequest(id=batch) answers (first attempt)
DeleteBatchReturns ==
    /\ pc = "delete_batch"
    /\ \E o \in TailOutcomes :
         CASE o = "ok" ->
                /\ stats' = Add(stats, "contacts_deleted", BatchLen(contacts))
                /\ IF contacts.i + BatchSize < contacts.n
                   THEN /\ pc' = "batch_sleep"
                        /\ rtimer' = ActionSleep * 2
                        /\ UNCHANGED << contacts, contacts_semaphore, result >>
                   ELSE NextBatch /\ UNCHANGED rtimer
           [] o = "FloodWaitError" ->
                /\ pc' = "batch_flood_sleep"
                /\ \E w \in 1..MaxFloodWait : rtimer' = w
                /\ UNCHANGED << stats, contacts, contacts_semaphore, result >>
           [] OTHER ->
                /\ IF ContactsCatches(o)
                   THEN stats' = Inc(stats, "errors") /\ NextBatch
                   ELSE ContactsRaises(o) /\ UNCHANGED stats
                /\ UNCHANGED rtimer
    /\ UNCHANGED << env, reauth, dry_run, revoke_default, dialogs, ltask, dtask, leave_semaphore,
                    delete_semaphore, actions, last_action_time, archive,
                    cancelled, files >>

\* the sleep between two batches is over
BatchSleepDone ==
    /\ pc = "batch_sleep"
    /\ rtimer = 0
    /\ NextBatch
    /\ UNCHANGED << env, reauth, dry_run, revoke_default, dialogs, ltask, dtask, leave_semaphore,
                    delete_semaphore, stats, actions, last_action_time, archive,
                    rtimer, cancelled, files >>

\* the FloodWaitError handler of a batch after its sleep: the batch is sent again
BatchFloodSleepDone ==
    /\ pc = "batch_flood_sleep"
    /\ rtimer = 0
    /\ pc' = "batch_retry"
    /\ UNCHANGED << env, reauth, dry_run, revoke_default, dialogs, ltask, dtask, leave_semaphore,
                    delete_semaphore, contacts_semaphore, stats, actions,
                    last_action_time, contacts, archive, rtimer, cancelled,
                    files, result >>

\* the retry of a batch answers
BatchRetryReturns ==
    /\ pc = "batch_retry"
    /\ \E o \in TailOutcomes :
         IF o = "ok"
         THEN stats' = Add(stats, "contacts_deleted", BatchLen(contacts)) /\ NextBatch
         ELSE IF ContactsCatches(o)
              THEN stats' = Inc(stats, "errors") /\ NextBatch
              ELSE ContactsRaises(o) /\ UNCHANGED stats
    /\ UNCHANGED << env, reauth, dry_run, revoke_default, dialogs, ltask, dtask, leave_semaphore,
                    delete_semaphore, actions, last_action_time, archive, rtimer,
                    cancelled, files >>

(* ------------------------------------------------ phase 4: archive *)
\* (variant: the archive phase has no `except Exception` clauses, only the
\*  FloodWaitError handler)
ArchiveCatchesFlood(e) == e = "FloodWaitError"
\* the handlers of _archive_remaining_dialogs are `except Exception`
ArchiveCatches(e) == IsException(e)

\* run, step 5 and _archive_remaining_dialogs up to the await of get_dialogs
StartArchive ==
    /\ pc = "start_archive"
    /\ pc' = IF dry_run THEN "report" ELSE "archive_get_dialogs"
    /\ UNCHANGED << env, reauth, dry_run, revoke_default, dialogs, ltask, dtask, leave_semaphore,
                    delete_semaphore, contacts_semaphore, stats, actions,
                    last_action_time, contacts, archive, rtimer, cancelled,
                    files, result >>

\* get_dialogs of the archive phase answers
ArchiveGetDialogsReturns ==
    /\ pc = "archive_get_dialogs"
    /\ \E o \in TailOutcomes :
         IF o = "ok"
         THEN \E m \in ArchiveCounts :
                /\ archive' = [n |-> m, i |-> 1, archived_count |-> 0]
                /\ IF m = 0
                   THEN /\ stats' = [stats EXCEPT !.dialogs_closed = 0]
                        /\ pc' = "report"
                   ELSE pc' = "archive_call" /\ UNCHANGED stats
                /\ UNCHANGED result
         ELSE /\ IF ArchiveCatches(o)
                 THEN pc' = "report" /\ UNCHANGED result
                 ELSE RunRaises(o)
              /\ UNCHANGED << archive, stats >>
    /\ UNCHANGED << env, reauth, dry_run, revoke_default, dialogs, ltask, dtask, leave_semaphore,
                    delete_semaphore, contacts_semaphore, actions,
                    last_action_time, contacts, rtimer, cancelled, files >>

\* (variant: dialogs_closed is set to the number of dialogs listed)
ArchiveClosedListed(count) == archive.n
\* the value line 559 stores in dialogs_closed: archived_count
ArchiveClosed(count) == count

\* the for loop of the archive phase moves to the next dialog, or ends;
\* count is archived_count after the dialog just handled
ArchiveNext(count) ==
    /\ archive' = [archive EXCEPT !.i = @ + 1, !.archived_count = count]
    /\ IF archive.i + 1 <= archive.n
       THEN pc' = "archive_call" /\ UNCHANGED stats
       ELSE /\ stats' = [stats EXCEPT !.dialogs_closed = ArchiveClosed(count)]
            /\ pc' = "report"
    /\ UNCHANGED result

\* an exception no handler of _archive_remaining_dialogs takes
ArchiveRaises(e) ==
    /\ RunRaises(e)
    /\ UNCHANGED << archive, stats >>

\* edit_folder(dialog.entity, folder=1) answers (first attempt)
ArchiveCallReturns ==
    /\ pc = "archive_call"
    /\ \E o \in TailOutcomes :
         CASE o = "ok" ->
                /\ archive' = [archive EXCEPT !.archived_count = @ + 1]
                /\ pc' = "archive_sleep"
                /\ rtimer' = ActionSleep
                /\ UNCHANGED << stats, result >>
           [] o = "FloodWaitError" ->
                /\ pc' = "archive_flood_sleep"
                /\ \E w \in 1..MaxFloodWait : rtimer' = w
                /\ UNCHANGED << archive, stats, result >>
           [] OTHER ->
                /\ IF ArchiveCatches(o)
                   THEN ArchiveNext(archive.archived_count)
                   ELSE ArchiveRaises(o)
                /\ UNCHANGED rtimer
    /\ UNCHANGED << env, reauth, dry_run, revoke_default, dialogs, ltask, dtask, leave_semaphore,
                    delete_semaphore, contacts_semaphore, actions,
                    last_action_time, contacts, cancelled, files >>

\* the pacing sleep after an archived dialog is over
ArchiveSleepDone ==
    /\ pc = "archive_sleep"
    /\ rtimer = 0
    /\ ArchiveNext(archive.archived_count)
    /\ UNCHANGED << env, reauth, dry_run, revoke_default, dialogs, ltask, dtask, leave_semaphore,
                    delete_semaphore, contacts_semaphore, actions,
                    last_action_time, contacts, rtimer, cancelled, files >>

\* the FloodWaitError handler of the archive loop after its sleep
ArchiveFloodSleepDone ==
    /\ pc = "archive_flood_sleep"
    /\ rtimer = 0
    /\ pc' = "archive_retry"
    /\ UNCHANGED << env, reauth, dry_run, revoke_default, dialogs, ltask, dtask, leave_semaphore,
                    delete_semaphore, contacts_semaphore, stats, actions,
                    last_action_time, contacts, archive, rtimer, cancelled,
                    files, result >>

\* the retry of edit_folder answers
ArchiveRetryReturns ==
    /\ pc = "archive_retry"
    /\ \E o \in TailOutcomes :
         IF o = "ok"
         THEN ArchiveNext(archive.archived_count + 1)
         ELSE IF ArchiveCatches(o)
              THEN ArchiveNext(archive.archived_count)
              ELSE ArchiveRaises(o)
    /\ UNCHANGED << env, reauth, dry_run, revoke_default, dialogs, ltask, dtask, leave_semaphore,
                    delete_semaphore, contacts_semaphore, actions,
                    last_action_time, contacts, rtimer, cancelled, files >>

(* ------------------------------------------------------ the report *)
\* CleanupReport(statistics=self.stats.copy(), actions=self.actions.copy())
CleanupReport == [statistics |-> stats, actions |-> actions]

RECURSIVE Join(_, _)
\* sep.join(parts)
Join(parts, sep) ==
    IF parts = << >> THEN ""
    ELSE IF Len(parts) = 1 THEN parts[1]
    ELSE parts[1] \o sep \o Join(Tail(parts), sep)

\* _save_csv_report: the header row
CsvHeader ==
    << "chat_id", "title", "type", "actions_done", "status", "error", "timestamp" >>

\* (variant: the error column is left out of the data rows)
CsvRowNoError(a) ==
    << ToString(a.chat_id), a.title, a.chat_type, Join(a.actions_done, ", "),
       a.status, "", a.timestamp >>
\* _save_csv_report: the data row of an action (csv.writer writes str(cell))
CsvRow(a) ==
    << ToString(a.chat_id), a.title, a.chat_type, Join(a.actions_done, ", "),
       a.status, IF a.error = None THEN "" ELSE a.error, a.timestamp >>

\* _save_csv_report: the rows written
CsvRows(report) ==
    << CsvHeader >> \o [i \in DOMAIN report.actions |-> CsvRow(report.actions[i])]

\* asdict(action)
AsDict(a) ==
    [chat_id |-> a.chat_id, title |-> a.title, chat_type |-> a.chat_type,
     actions_done |-> a.actions_done, status |-> a.status, error |-> a.error,
     timestamp |-> a.timestamp]

\* CleanupReport.to_dict, the document _save_json_report dumps (of its keys
\* the two that carry the run's data; account_name, timestamp and
\* elapsed_time_seconds are not kept by the model)
ToDict(report) ==
    [statistics |-> report.statistics,
     actions |-> [i \in DOMAIN report.actions |-> AsDict(report.actions[i])]]

\* (variant: the file is opened with mode 'a')
OpenAppend(old, new) == old \o new
\* open(path, 'w'): what the file held before is dropped
OpenWrite(old, new) == new

\* the content of a report file that was never written
NoFile == << >>

\* _save_csv_report and _save_json_report on a report, over the files on disk
\* (the JSON file holds one document)
SaveBoth(report, disk) ==
    [csv |-> OpenWrite(IF "csv" \in DOMAIN disk THEN disk.csv ELSE NoFile,
                       CsvRows(report)),
     json |-> OpenWrite(IF "json" \in DOMAIN disk THEN disk.json ELSE NoFile,
                        << ToDict(report) >>)]

\* the CleanupReport is built and _save_csv_report and _save_json_report are
\* called; run returns
SaveReports ==
    /\ pc = "report"
    /\ files' = SaveBoth(CleanupReport, << >>)
    /\ env' = [env EXCEPT !.saves = 1]
    /\ result' = SuccessResult
    /\ pc' = "returned"
    /\ UNCHANGED << reauth, dry_run, revoke_default, dialogs, ltask, dtask, leave_semaphore,
                    delete_semaphore, contacts_semaphore, stats, actions,
                    last_action_time, contacts, archive, rtimer, cancelled >>

(* ---------------------------------------------------- cancellation *)
\* where run is suspended
RunAwaits ==
    {"get_dialogs", "leave_gather", "erase_gather", "get_contacts", "delete_batch",
     "batch_sleep", "batch_flood_sleep", "batch_retry", "archive_get_dialogs",
     "archive_call", "archive_sleep", "archive_flood_sleep", "archive_retry"}

InContacts ==
    pc \in {"get_contacts", "delete_batch", "batch_sleep", "batch_flood_sleep",
            "batch_retry"}

\* Task.cancel() reaches the children of the gather run waits for
CancelTasks(tasks) ==
    [t \in DOMAIN tasks |->
        IF tasks[t].pc = "done" THEN tasks[t]
        ELSE [tasks[t] EXCEPT !.must_cancel = TRUE]]

\* the task that runs run is cancelled from outside
Cancel ==
    /\ ~cancelled
    /\ pc \in RunAwaits
    /\ cancelled' = TRUE
    /\ IF pc \in {"leave_gather", "erase_gather"}
       THEN /\ ltask' = IF pc = "leave_gather" THEN CancelTasks(ltask) ELSE ltask
            /\ dtask' = IF pc = "erase_gather" THEN CancelTasks(dtask) ELSE dtask
            /\ UNCHANGED << pc, result, contacts_semaphore, rtimer >>
       ELSE /\ RunRaises(CancelledError)
            /\ contacts_semaphore' =
                 IF InContacts THEN contacts_semaphore + 1 ELSE contacts_semaphore
            /\ rtimer' = 0
            /\ UNCHANGED << ltask, dtask >>
    /\ UNCHANGED << env, reauth, dry_run, revoke_default, dialogs, leave_semaphore,
                    delete_semaphore, stats, actions, last_action_time, contacts,
                    archive, files >>

(* ------------------------------------------------------------ time *)
Aged(a) == IF a >= 0 /\ a < MinPeerInterval THEN a + 1 ELSE a

Slept(tasks) ==
    [t \in DOMAIN tasks |->
        [tasks[t] EXCEPT !.timer = IF @ > 0 THEN @ - 1 ELSE @,
                         !.since = IF tasks[t].pc = "rate_wait" THEN Aged(@) ELSE @]]

\* a task of a lane is ready to run: its sleep is over, a slot is free for it,
\* or CancelledError waits to be thrown into it
ReadyTask(tasks, t, gather, semaphore) ==
    \/ tasks[t].pc # "done" /\ tasks[t].must_cancel
    \/ tasks[t].pc \in {"rate_wait", "flood_sleep", "pace"} /\ tasks[t].timer = 0
    \/ tasks[t].pc = "waiting" /\ pc = gather /\ semaphore > 0
          /\ FirstWaiting(tasks, t)

\* run itself is ready to run: it is not waiting for an answer or for time
ReadyRun ==
    \/ pc \in {"start_leave", "start_erase", "start_contacts", "start_archive",
               "report"}
    \/ pc = "leave_gather" /\ GatherDone(ltask)
    \/ pc = "erase_gather" /\ GatherDone(dtask)
    \/ pc \in {"batch_sleep", "batch_flood_sleep", "archive_sleep",
               "archive_flood_sleep"} /\ rtimer = 0

\* the event loop has a callback to run
Ready ==
    \/ ReadyRun
    \/ \E t \in DOMAIN ltask : ReadyTask(ltask, t, "leave_gather", leave_semaphore)
    \/ \E t \in DOMAIN dtask : ReadyTask(dtask, t, "erase_gather", delete_semaphore)

\* one unit of time passes; the event loop waits only when nothing is ready
Tick ==
    /\ pc \notin {"returned", "raised"}
    /\ ~Ready
    /\ \/ rtimer > 0
       \/ \E t \in DOMAIN ltask : ltask[t].timer > 0
       \/ \E t \in DOMAIN dtask : dtask[t].timer > 0
       \/ \E i \in Ids : last_action_time[i] >= 0 /\ last_action_time[i] < MinPeerInterval
    /\ rtimer' = IF rtimer > 0 THEN rtimer - 1 ELSE 0
    /\ ltask' = Slept(ltask)
    /\ dtask' = Slept(dtask)
    /\ last_action_time' = [i \in DOMAIN last_action_time |-> Aged(last_action_time[i])]
    /\ UNCHANGED << env, reauth, dry_run, revoke_default, pc, dialogs, leave_semaphore,
                    delete_semaphore, contacts_semaphore, stats, actions, contacts,
                    archive, cancelled, files, result >>

(* ------------------------------------------------------------ Next *)
Next ==
    \/ GetDialogsReturns
    \/ StartLeave
    \/ \E t \in DOMAIN ltask : LeaveAcquire(t)
    \/ \E t \in DOMAIN ltask : LeaveRateWaitDone(t)
    \/ \E t \in DOMAIN ltask : LeaveCallReturns(t)
    \/ \E t \in DOMAIN ltask : LeaveFloodSleepDone(t)
    \/ \E t \in DOMAIN ltask : LeavePaceDone(t)
    \/ \E t \in DOMAIN ltask : LeaveCancelled(t)
    \/ LeaveGatherReturns
    \/ StartErase
    \/ \E t \in DOMAIN dtask : EraseAcquire(t)
    \/ \E t \in DOMAIN dtask : EraseRateWaitDone(t)
    \/ \E t \in DOMAIN dtask : EraseCallReturns(t)
    \/ \E t \in DOMAIN dtask : EraseFloodSleepDone(t)
    \/ \E t \in DOMAIN dtask : ErasePaceDone(t)
    \/ \E t \in DOMAIN dtask : EraseCancelled(t)
    \/ EraseGatherReturns
    \/ StartContacts
    \/ GetContactsReturns
    \/ DeleteBatchReturns
    \/ BatchSleepDone
    \/ BatchFloodSleepDone
    \/ BatchRetryReturns
    \/ StartArchive
    \/ ArchiveGetDialogsReturns
    \/ ArchiveCallReturns
    \/ ArchiveSleepDone
    \/ ArchiveFloodSleepDone
    \/ ArchiveRetryReturns
    \/ SaveReports
    \/ Cancel
    \/ Tick

Spec == Init /\ [][Next]_vars

(* ------------------------------------------- rendering a report again *)
\* how often the two renderers are applied to the report of a run
MaxSaves == 2

\* _save_csv_report and _save_json_report are called again on the report of
\* the run that returned (nothing changed self.stats or self.actions since)
RenderAgain ==
    /\ pc = "returned"
    /\ result.success
    /\ env.saves < MaxSaves
    /\ files' = SaveBoth(CleanupReport, files)
    /\ env' = [env EXCEPT !.saves = @ + 1]
    /\ UNCHANGED << reauth, dry_run, revoke_default, pc, dialogs, ltask, dtask,
                    leave_semaphore, delete_semaphore, contacts_semaphore, stats,
                    actions, last_action_time, contacts, archive, rtimer,
                    cancelled, result >>

RenderNext == Next \/ RenderAgain

RenderSpec == Init /\ [][RenderNext]_vars

(* -------------------------------------- run called again on a cleaner *)
\* run is called again on the cleaner whose run has ended: the locals of run
\* are new, the attributes __init__ set are what the last run left
RunAgain ==
    /\ pc \in {"returned", "raised"}
    /\ env.scope = "rerun"
    /\ env.run < MaxRuns
    /\ env' = [env EXCEPT !.run = @ + 1, !.saves = 0]
    /\ dry_run' \in BOOLEAN
    /\ pc' = "get_dialogs"
    /\ dialogs' = << >>
    /\ ltask' = << >>
    /\ dtask' = << >>
    /\ contacts' = [n |-> 0, i |-> 0]
    /\ archive' = [n |-> 0, i |-> 0, archived_count |-> 0]
    /\ rtimer' = 0
    /\ cancelled' = FALSE
    /\ files' = << >>
    /\ result' = [success |-> FALSE, keys |-> {}]
    /\ UNCHANGED << reauth, revoke_default, leave_semaphore, delete_semaphore,
                    contacts_semaphore, stats, actions, last_action_time >>

RerunInit ==
    /\ env = [scope |-> "rerun", run |-> 1, saves |-> 0]
    /\ reauth = ReauthIdle
    /\ dry_run \in BOOLEAN
    /\ revoke_default = TRUE
    /\ pc = "get_dialogs"
    /\ dialogs = << >>
    /\ ltask = << >>
    /\ dtask = << >>
    /\ leave_semaphore = LeaveSemaphoreInit
    /\ delete_semaphore = DeleteSemaphoreInit
    /\ contacts_semaphore = ContactsSemaphoreInit
    /\ stats = ZeroStats
    /\ actions = << >>
    /\ last_action_time = [i \in Ids |-> -1]
    /\ contacts = [n |-> 0, i |-> 0]
    /\ archive = [n |-> 0, i |-> 0, archived_count |-> 0]
    /\ rtimer = 0
    /\ cancelled = FALSE
    /\ files = << >>
    /\ result = [success |-> FALSE, keys |-> {}]

\* the steps two runs over groups take when no request is throttled
RerunNext ==
    \/ GetDialogsReturns
    \/ StartLeave
    \/ \E t \in DOMAIN ltask : LeaveAcquire(t)
    \/ \E t \in DOMAIN ltask : LeaveRateWaitDone(t)
    \/ \E t \in DOMAIN ltask : LeaveCallReturns(t)
    \/ \E t \in DOMAIN ltask : LeavePaceDone(t)
    \/ LeaveGatherReturns
    \/ StartErase
    \/ StartContacts
    \/ GetContactsReturns
    \/ StartArchive
    \/ ArchiveGetDialogsReturns
    \/ ArchiveCallReturns
    \/ ArchiveSleepDone
    \/ SaveReports
    \/ Tick
    \/ RunAgain

RerunSpec == RerunInit /\ [][RerunNext]_vars

(* ------------------------------------------------ the worked scenario *)
ScenarioInit ==
    /\ env = [scope |-> "scenario", run |-> 1, saves |-> 0]
    /\ reauth = ReauthIdle
    /\ dry_run = FALSE
    /\ revoke_default \in BOOLEAN
    /\ pc = "get_dialogs"
    /\ dialogs = << >>
    /\ ltask = << >>
    /\ dtask = << >>
    /\ leave_semaphore = LeaveSemaphoreInit
    /\ delete_semaphore = DeleteSemaphoreInit
    /\ contacts_semaphore = ContactsSemaphoreInit
    /\ stats = ZeroStats
    /\ actions = << >>
    /\ last_action_time = [i \in Ids |-> -1]
    /\ contacts = [n |-> 0, i |-> 0]
    /\ archive = [n |-> 0, i |-> 0, archived_count |-> 0]
    /\ rtimer = 0
    /\ cancelled = FALSE
    /\ files = << >>
    /\ result = [success |-> FALSE, keys |-> {}]

\* the steps a run takes when every request succeeds and no identifier repeats
ScenarioNext ==
    \/ GetDialogsReturns
    \/ StartLeave
    \/ \E t \in DOMAIN ltask : LeaveAcquire(t)
    \/ \E t \in DOMAIN ltask : LeaveCallReturns(t)
    \/ \E t \in DOMAIN ltask : LeavePaceDone(t)
    \/ LeaveGatherReturns
    \/ StartErase
    \/ \E t \in DOMAIN dtask : EraseAcquire(t)
    \/ \E t \in DOMAIN dtask : EraseCallReturns(t)
    \/ \E t \in DOMAIN dtask : ErasePaceDone(t)
    \/ EraseGatherReturns
    \/ StartContacts
    \/ GetContactsReturns
    \/ DeleteBatchReturns
    \/ StartArchive
    \/ ArchiveGetDialogsReturns
    \/ ArchiveCallReturns
    \/ ArchiveSleepDone
    \/ SaveReports
    \/ Tick

ScenarioSpec == ScenarioInit /\ [][ScenarioNext]_vars

(* ------------------------------------ reauthorization.py: recreate_session *)
\* a call on a client and what it answered, added to the client's history
Call(history, name, answer) == Append(history, << name, answer >>)

\* the names of the calls made on a client so far
Names(history) == {history[k][1] : k \in DOMAIN history}

\* the new client signed in (with the code or with the 2FA password), and
\* is_user_authorized confirmed it
SignedIn == \E k \in DOMAIN reauth.new_client :
                reauth.new_client[k] \in {<< "sign_in", "ok" >>,
                                          << "sign_in_password", "ok" >>}
Confirmed == << "is_user_authorized", "True" >> \in
                 {reauth.new_client[k] : k \in DOMAIN reauth.new_client}

\* (variant: the old session is logged out right after the other sessions
\*  were reset, before the new client exists)
AfterStepLogOutFirst(step) ==
    CASE step = "connect_old" -> "old_authorized"
      [] step = "old_authorized" -> "reset_sessions"
      [] step = "reset_sessions" -> "log_out"
      [] step = "log_out" -> "connect_new"
      [] step = "connect_new" -> "send_code"
      [] step = "send_code" -> "code_wait"
      [] step = "code_wait" -> "get_code"
      [] step = "get_code" -> "sign_in"
      [] step = "sign_in" -> "new_authorized"
      [] step = "sign_in_password" -> "new_authorized"
      [] step = "new_authorized" -> "get_me"
      [] step = "get_me" -> "disconnect"
      [] step = "disconnect" -> "post"
      [] OTHER -> "finally"
\* the statement that follows a step of the try block when the step went well
AfterStep(step) ==
    CASE step = "connect_old" -> "old_authorized"
      [] step = "old_authorized" -> "reset_sessions"
      [] step = "reset_sessions" -> "connect_new"
      [] step = "connect_new" -> "send_code"
      [] step = "send_code" -> "code_wait"
      [] step = "code_wait" -> "get_code"
      [] step = "get_code" -> "sign_in"
      [] step = "sign_in" -> "new_authorized"
      [] step = "sign_in_password" -> "new_authorized"
      [] step = "new_authorized" -> "get_me"
      [] step = "get_me" -> "log_out"
      [] step = "log_out" -> "disconnect"
      [] step = "disconnect" -> "post"
      [] OTHER -> "finally"

\* `return False, message` inside the try block: the finally clause is next
ReauthReturns(r, ok, why) ==
    [r EXCEPT !.pc = "finally", !.result = [ok |-> ok, why |-> why]]

\* `except Exception as e`: return False, "重新授权失败: " + str(e); the
\* exception is named after the call that raised it
ReauthExcept(r, call) == ReauthReturns(r, FALSE, "failed: " \o call)

\* the cleaner is not part of a behaviour of recreate_session
CleanerIdle ==
    UNCHANGED << env, dry_run, revoke_default, pc, dialogs, ltask, dtask,
                 leave_semaphore, delete_semaphore, contacts_semaphore, stats,
                 actions, last_action_time, contacts, archive, rtimer, cancelled,
                 files, result >>

\* step 1: old_client.connect() answers
ConnectOld ==
    /\ reauth.pc = "connect_old"
    /\ \E o \in {"ok", "error"} :
         LET r == [reauth EXCEPT !.old_client = Call(@, "connect", o)] IN
         reauth' = IF o = "ok" THEN [r EXCEPT !.pc = AfterStep("connect_old")]
                   ELSE ReauthExcept(r, "connect")
    /\ CleanerIdle

\* step 1: old_client.is_user_authorized() answers
OldAuthorized ==
    /\ reauth.pc = "old_authorized"
    /\ \E o \in {"True", "False", "error"} :
         LET r == [reauth EXCEPT !.old_client = Call(@, "is_user_authorized", o)] IN
         reauth' = CASE o = "True" -> [r EXCEPT !.pc = AfterStep("old_authorized")]
                     [] o = "False" -> ReauthReturns(r, FALSE, "old session unauthorized")
                     [] OTHER -> ReauthExcept(r, "is_user_authorized")
    /\ CleanerIdle

\* step 2: reset_sessions(old_client) returns; it catches every exception,
\* and a failure is only printed
ResetSessions ==
    /\ reauth.pc = "reset_sessions"
    /\ \E o \in {"True", "False"} :
         reauth' = [reauth EXCEPT !.old_client = Call(@, "reset_sessions", o),
                                  !.pc = AfterStep("reset_sessions")]
    /\ CleanerIdle

\* step 3: the new client is created and new_client.connect() answers
ConnectNew ==
    /\ reauth.pc = "connect_new"
    /\ \E o \in {"ok", "error"} :
         LET r == [reauth EXCEPT !.new_client = Call(@, "connect", o)] IN
         reauth' = IF o = "ok" THEN [r EXCEPT !.pc = AfterStep("connect_new")]
                   ELSE ReauthExcept(r, "connect")
    /\ CleanerIdle

\* step 4: SendCodeRequest answers
SendCode ==
    /\ reauth.pc = "send_code"
    /\ \E o \in {"ok", "error"} :
         LET r == [reauth EXCEPT !.new_client = Call(@, "send_code", o)] IN
         reauth' = IF o = "ok" THEN [r EXCEPT !.pc = AfterStep("send_code")]
                   ELSE ReauthExcept(r, "send_code")
    /\ CleanerIdle

\* asyncio.sleep(CODE_ARRIVAL_WAIT) is over
CodeArrived ==
    /\ reauth.pc = "code_wait"
    /\ reauth' = [reauth EXCEPT !.pc = AfterStep("code_wait")]
    /\ CleanerIdle

\* step 5: get_verification_code_from_telegram(old_client) returns a code or
\* None; it catches every exception
GetCode ==
    /\ reauth.pc = "get_code"
    /\ \E o \in {"code", "None"} :
         LET r == [reauth EXCEPT !.old_client = Call(@, "get_messages", o)] IN
         reauth' = IF o = "code" THEN [r EXCEPT !.pc = AfterStep("get_code")]
                   ELSE ReauthReturns(r, FALSE, "no verification code")
    /\ CleanerIdle

\* step 6: new_client.sign_in with the code answers
SignIn ==
    /\ reauth.pc = "sign_in"
    /\ \E o \in {"ok", "SessionPasswordNeededError", "error"} :
         LET r == [reauth EXCEPT !.new_client = Call(@, "sign_in", o)] IN
         reauth' = CASE o = "ok" -> [r EXCEPT !.pc = AfterStep("sign_in")]
                     [] o = "SessionPasswordNeededError" ->
                          IF reauth.two_fa_password
                          THEN [r EXCEPT !.pc = "sign_in_password"]
                          ELSE ReauthReturns(r, FALSE, "2FA password missing")
                     [] OTHER -> ReauthExcept(r, "sign_in")
    /\ CleanerIdle

\* step 6: new_client.sign_in with the 2FA password answers
SignInPassword ==
    /\ reauth.pc = "sign_in_password"
    /\ \E o \in {"ok", "error"} :
         LET r == [reauth EXCEPT !.new_client = Call(@, "sign_in_password", o)] IN
         reauth' = IF o = "ok" THEN [r EXCEPT !.pc = AfterStep("sign_in_password")]
                   ELSE ReauthExcept(r, "sign_in")
    /\ CleanerIdle

\* new_client.is_user_authorized() answers
NewAuthorized ==
    /\ reauth.pc = "new_authorized"
    /\ \E o \in {"True", "False", "error"} :
         LET r == [reauth EXCEPT !.new_client = Call(@, "is_user_authorized", o)] IN
         reauth' = CASE o = "True" -> [r EXCEPT !.pc = AfterStep("new_authorized")]
                     [] o = "False" -> ReauthReturns(r, FALSE, "new session not signed in")
                     [] OTHER -> ReauthExcept(r, "is_user_authorized")
    /\ CleanerIdle

\* new_client.get_me() answers
GetMe ==
    /\ reauth.pc = "get_me"
    /\ \E o \in {"ok", "error"} :
         LET r == [reauth EXCEPT !.new_client = Call(@, "get_me", o)] IN
         reauth' = IF o = "ok" THEN [r EXCEPT !.pc = AfterStep("get_me")]
                   ELSE ReauthExcept(r, "get_me")
    /\ CleanerIdle

\* step 7: old_client.log_out() answers; an exception is only printed
LogOutOld ==
    /\ reauth.pc = "log_out"
    /\ \E o \in {"ok", "error"} :
         reauth' = [reauth EXCEPT !.old_client = Call(@, "log_out", o),
                                  !.pc = AfterStep("log_out")]
    /\ CleanerIdle

\* step 8: both clients are disconnected
DisconnectBoth ==
    /\ reauth.pc = "disconnect"
    /\ \E o \in {"ok", "error"} :
         LET r == [reauth EXCEPT !.new_client = Call(@, "disconnect", o)] IN
         reauth' = IF o = "ok"
                   THEN [r EXCEPT !.old_client = Call(@, "disconnect", "ok"),
                                  !.pc = AfterStep("disconnect")]
                   ELSE ReauthExcept(r, "disconnect")
    /\ CleanerIdle

\* steps 9 to 11 (the JSON file, the output folder, TData): their errors are
\* printed; then `return True, ...`
PostProcess ==
    /\ reauth.pc = "post"
    /\ reauth' = ReauthReturns(reauth, TRUE, "reauthorized")
    /\ CleanerIdle

\* the finally clause: the clients that are still connected are disconnected
ReauthFinally ==
    /\ reauth.pc = "finally"
    /\ reauth' = [reauth EXCEPT !.pc = "returned"]
    /\ CleanerIdle

ReauthInit ==
    /\ env = [scope |-> "reauth", run |-> 1, saves |-> 0]
    /\ \E p \in BOOLEAN :
         reauth = [ReauthIdle EXCEPT !.pc = "connect_old", !.two_fa_password = p]
    /\ dry_run = FALSE
    /\ revoke_default = FALSE
    /\ pc = "get_dialogs"
    /\ dialogs = << >>
    /\ ltask = << >>
    /\ dtask = << >>
    /\ leave_semaphore = LeaveSemaphoreInit
    /\ delete_semaphore = DeleteSemaphoreInit
    /\ contacts_semaphore = ContactsSemaphoreInit
    /\ stats = ZeroStats
    /\ actions = << >>
    /\ last_action_time = [i \in Ids |-> -1]
    /\ contacts = [n |-> 0, i |-> 0]
    /\ archive = [n |-> 0, i |-> 0, archived_count |-> 0]
    /\ rtimer = 0
    /\ cancelled = FALSE
    /\ files = << >>
    /\ result = [success |-> FALSE, keys |-> {}]

ReauthNext ==
    \/ ConnectOld
    \/ OldAuthorized
    \/ ResetSessions
    \/ ConnectNew
    \/ SendCode
    \/ CodeArrived
    \/ GetCode
    \/ SignIn
    \/ SignInPassword
    \/ NewAuthorized
    \/ GetMe
    \/ LogOutOld
    \/ DisconnectBoth
    \/ PostProcess
    \/ ReauthFinally

ReauthSpec == ReauthInit /\ [][ReauthNext]_vars


(* ================================================================ *)
(*                         the properties                           *)
(* ================================================================ *)
TailPcs ==
    {"start_contacts", "get_contacts", "delete_batch", "batch_sleep",
     "batch_flood_sleep", "batch_retry", "start_archive", "archive_get_dialogs",
     "archive_call", "archive_sleep", "archive_flood_sleep", "archive_retry"}

\* run went past the gather of the leave phase, and past that of the erase phase
AfterLeave ==
    \/ pc \in {"start_erase", "erase_gather", "report"} \cup TailPcs
    \/ pc = "returned" /\ result.success
AfterErase ==
    \/ pc \in {"report"} \cup TailPcs
    \/ pc = "returned" /\ result.success

\* the ledger entries task t of a phase appended
RecordsOf(phase, t) == {i \in DOMAIN actions : actions[i].src = << phase, t >>}

\* a task between the acquisition and the release of its lane slot
Holding(tk) == tk.pc \in {"rate_wait", "get_me", "request", "flood_sleep", "pace"}

Finalized == {"success", "partial", "failed", "skipped"}

AllOk(outs) == \A k \in DOMAIN outs : outs[k] = "ok"

(* C1: after a non-dry run whose leave and erase phases have drained, the *)
(* ledger holds exactly one record for every dialog dispatched to the     *)
(* leave phase and exactly one for every dialog dispatched to the erase   *)
(* phase, whatever the calls answered; its length is                      *)
(* |groups| + |channels| + |users| + |bots|.                              *)
C1_OneRecordPerDialog ==
    (~dry_run /\ AfterErase) =>
        /\ Len(ltask) = Len(GroupsOf(dialogs)) + Len(ChannelsOf(dialogs))
        /\ Len(dtask) = Len(UsersOf(dialogs)) + Len(BotsOf(dialogs))
        /\ \A t \in DOMAIN ltask :
              /\ Cardinality(RecordsOf("leave", t)) = 1
              /\ \A i \in RecordsOf("leave", t) : actions[i].chat_id = ltask[t].d.id
        /\ \A t \in DOMAIN dtask :
              /\ Cardinality(RecordsOf("erase", t)) = 1
              /\ \A i \in RecordsOf("erase", t) : actions[i].chat_id = dtask[t].d.id
        /\ Len(actions) = Len(GroupsOf(dialogs)) + Len(ChannelsOf(dialogs))
                          + Len(UsersOf(dialogs)) + Len(BotsOf(dialogs))

\* a run that returned with a failed retry in one phase and a skip in the other
C1_Witness ==
    /\ ~dry_run /\ pc = "returned" /\ result.success
    /\ Len(actions) = 2
    /\ \E i, j \in DOMAIN actions :
          /\ actions[i].src[1] = "leave"
          /\ actions[i].error = "Retry failed: FloodWaitError"
          /\ actions[j].src[1] = "erase"
          /\ actions[j].status = "skipped"

(* C2: the phases run strictly in order: no operation of a phase has      *)
(* started while an operation of the phase before it is in flight or has  *)
(* not appended its record.                                               *)
C2_PhaseOrder ==
    /\ dtask # << >> =>
          \A t \in DOMAIN ltask :
              ltask[t].pc = "done" /\ Cardinality(RecordsOf("leave", t)) = 1
    /\ (pc \in TailPcs \ {"start_contacts"}
        \/ contacts_semaphore < ContactsSemaphoreInit) =>
          /\ \A t \in DOMAIN ltask :
                ltask[t].pc = "done" /\ Cardinality(RecordsOf("leave", t)) = 1
          /\ \A t \in DOMAIN dtask :
                dtask[t].pc = "done" /\ Cardinality(RecordsOf("erase", t)) = 1
    /\ pc \in {"archive_get_dialogs", "archive_call", "archive_sleep",
               "archive_flood_sleep", "archive_retry"} =>
          contacts_semaphore = ContactsSemaphoreInit

\* an erase request in flight after a leave phase that had work
C2_Witness ==
    /\ ltask # << >>
    /\ \E t \in DOMAIN dtask : dtask[t].pc = "request"

LaneQuiet(old, new) ==
    \A t \in DOMAIN old :
        (old[t].pc = "flood_sleep" /\ old[t].timer > 0) =>
            \A u \in DOMAIN old \ {t} :
                /\ new[u].calls = old[u].calls
                /\ old[u].pc = "waiting" => new[u].pc \in {"waiting", "done"}

(* C4: when a request of a lane raises a throttle signal with wait W, the *)
(* whole lane is suspended: no other operation of that lane acquires a    *)
(* slot or sends a request until W has elapsed.                           *)
C4_LaneSuspended ==
    [][LaneQuiet(ltask, ltask') /\ LaneQuiet(dtask, dtask')]_vars

AllTasks == {ltask[t] : t \in DOMAIN ltask} \cup {dtask[t] : t \in DOMAIN dtask}

(* C5 as stated: a throttled operation makes exactly one further          *)
(* transport call, whatever that call answers.                            *)
C5_OneFurtherCall ==
    \A tk \in AllTasks :
        (tk.stage = "retry" /\ tk.pc \in {"pace", "done"}) => tk.rcalls = 1

(* C5, amended: a throttled operation is retried exactly once after the   *)
(* wait (unless it is cancelled during the wait): one further attempt is  *)
(* made, which is one request, or for a basic group get_me followed by    *)
(* DeleteChatUserRequest; whatever the retry answers there is no further  *)
(* wait, attempt or transport call.                                       *)
C5_OneFurtherAttempt ==
    \A tk \in AllTasks :
        /\ tk.stage = "retry" =>
              /\ tk.pc # "flood_sleep"
              /\ tk.rcalls >= 1
              /\ tk.rcalls <= (IF tk.d.kind = "chat" THEN 2 ELSE 1)
              /\ tk.calls <= 3 + (IF tk.d.kind = "chat" THEN 1 ELSE 0)
        /\ tk.stage # "retry" => tk.rcalls = 0
        /\ (tk.pc \in {"pace", "done"} /\ tk.exc = None
            /\ \E k \in DOMAIN tk.outs : tk.outs[k] = "FloodWaitError") =>
              tk.stage = "retry"

\* a basic group whose retry made both of its calls, and a channel whose retry
\* was throttled again
C5_Witness ==
    \/ \E t \in DOMAIN ltask :
          /\ ltask[t].d.kind = "chat" /\ ltask[t].pc = "done"
          /\ ltask[t].rcalls = 2
    \/ \E t \in DOMAIN dtask :
          /\ dtask[t].pc = "done" /\ dtask[t].rcalls = 1
          /\ dtask[t].action.error = "Retry failed: FloodWaitError"

(* C6: in the leave and erase phases the failure of one entity never      *)
(* aborts the phase nor keeps a sibling from being executed and recorded: *)
(* once the phase has drained every entity has made its calls and has its *)
(* finalized record, an entity whose calls all succeeded has a success    *)
(* record, and errors counts the failed records.                          *)
C6_Isolation ==
    /\ (~dry_run /\ AfterLeave) =>
          \A t \in DOMAIN ltask :
              /\ ltask[t].pc = "done" /\ ltask[t].calls >= 1 /\ ltask[t].exc = None
              /\ \A i \in RecordsOf("leave", t) :
                    /\ actions[i].status \in Finalized
                    /\ AllOk(ltask[t].outs) => actions[i].status = "success"
    /\ (~dry_run /\ AfterErase) =>
          \A t \in DOMAIN dtask :
              /\ dtask[t].pc = "done" /\ dtask[t].calls >= 1 /\ dtask[t].exc = None
              /\ \A i \in RecordsOf("erase", t) :
                    /\ actions[i].status \in Finalized
                    /\ AllOk(dtask[t].outs) => actions[i].status = "success"
    /\ pc \in {"start_erase", "erase_gather", "start_contacts"} =>
          stats.errors = Cardinality({i \in DOMAIN actions : actions[i].status = "failed"})

\* two leave entities, one refused with a permission error, the other left
C6_Witness ==
    /\ pc = "start_erase" /\ Len(ltask) = 2 /\ stats.errors = 1
    /\ \E i, j \in DOMAIN actions :
          /\ actions[i].error = "Permission error: ChannelPrivateError"
          /\ actions[i].status = "failed"
          /\ actions[j].status = "success"

(* C7: every record appended to the ledger is finalized: its status is    *)
(* success, partial, failed or skipped and never pending, also when the   *)
(* operation is ended by an exception no handler takes (cancellation).    *)
C7_RecordsFinalized ==
    \A i \in DOMAIN actions : actions[i].status \in Finalized

(* C8: a dry run makes no call of a phase, leaves the statistics and the  *)
(* ledger unchanged, writes no report file and returns only the eligible  *)
(* counts of the phases.                                                  *)
C8_DryRunNoEffects ==
    (dry_run /\ pc = "returned" /\ result.success) =>
        /\ ltask = << >> /\ dtask = << >>
        /\ stats = ZeroStats /\ actions = << >>
        /\ DOMAIN files = {}
        /\ result.keys = {"success", "groups", "channels", "users", "bots"}

(* C9: when an error outside the per-item handling aborts the run, run    *)
(* returns success=false, the report is still written, and the result     *)
(* holds the statistics and both report paths.                            *)
C9_FailureStillReports ==
    (pc = "returned" /\ ~result.success) =>
        /\ DOMAIN files = {"csv", "json"}
        /\ {"statistics", "report_path", "csv_path"} \subseteq result.keys

(* C10: no failure of an operation leaves run as an exception: whatever   *)
(* the transport calls of the four phases and the dialog enumeration      *)
(* raise, run returns a result; only the cancellation of run's own task   *)
(* ends it with an exception, and no task of a phase ends with one.       *)
C10_RunNeverRaises ==
    /\ pc = "raised" => cancelled
    /\ pc = "returned" => {"success", "statistics"} \subseteq result.keys
    /\ \A tk \in AllTasks : tk.exc # None => cancelled

\* a run that returned after failures in a lane and in the contact phase
C10_Witness ==
    /\ pc = "returned" /\ result.success /\ ~dry_run /\ ~cancelled
    /\ stats.errors >= 2
    /\ \E i \in DOMAIN actions : actions[i].status = "failed"

\* task t returns from _wait_for_rate_limit in this step
Released(old, new, t) ==
    /\ t \in DOMAIN old /\ t \in DOMAIN new
    /\ old[t].pc \in {"waiting", "rate_wait"}
    /\ new[t].pc \in {"get_me", "request"}

\* no task sends a request in this step
NoNewCalls(old, new) ==
    \A t \in DOMAIN new : t \in DOMAIN old /\ new[t].calls = old[t].calls

\* a transport call of a task is not ended by the cancellation in this step
NotAborted(old, new) ==
    \A t \in DOMAIN old :
        (old[t].pc \in {"get_me", "request"} /\ old[t].must_cancel /\ t \in DOMAIN new)
            => new[t].pc \in {"get_me", "request"}

(* C11: when run is cancelled from outside, the transport calls in flight *)
(* are not aborted and their records are finalized, no operation is       *)
(* dispatched after the cancellation, and the report is still written     *)
(* with what was recorded.                                                *)
C11_CancelGraceful ==
    [][ /\ NotAborted(ltask, ltask') /\ NotAborted(dtask, dtask')
        /\ cancelled => (NoNewCalls(ltask, ltask') /\ NoNewCalls(dtask, dtask'))
        /\ cancelled' => \A i \in DOMAIN actions' : actions'[i].status \in Finalized
        /\ (cancelled' /\ pc' \in {"returned", "raised"}) =>
               DOMAIN files' = {"csv", "json"} ]_vars

(* C12: a call of _wait_for_rate_limit for an identifier returns no       *)
(* earlier than min_peer_interval after every release of that identifier  *)
(* that was recorded before the call was made, and on return it records a *)
(* new release time for the identifier.                                   *)
C12_SequentialGate ==
    [][ /\ \A t \in DOMAIN ltask :
              Released(ltask, ltask', t) =>
                 /\ ltask'[t].since \notin 0..(MinPeerInterval - 1)
                 /\ last_action_time'[ltask[t].d.id] = 0
        /\ \A t \in DOMAIN dtask :
              Released(dtask, dtask', t) =>
                 /\ dtask'[t].since \notin 0..(MinPeerInterval - 1)
                 /\ last_action_time'[dtask[t].d.id] = 0 ]_vars

\* an erase task that had to sleep out the interval after the leave phase
\* released its identifier, and has now sent its request
C12_Witness ==
    \E t \in DOMAIN dtask : \E u \in DOMAIN ltask :
        /\ ltask[u].d.id = dtask[t].d.id /\ ltask[u].calls >= 1
        /\ dtask[t].pc = "request" /\ dtask[t].since = MinPeerInterval
        /\ last_action_time[dtask[t].d.id] = 0
        /\ \A k \in DOMAIN actions : actions[k].src[1] = "leave"

(* C13: calls of _wait_for_rate_limit for one identifier serialize under  *)
(* every interleaving: whenever a caller is released, the last release of *)
(* that identifier is at least min_peer_interval old (no two callers are  *)
(* released on the same stale release time).                              *)
C13_ReleasesSpaced ==
    [][ /\ \A t \in DOMAIN ltask :
              Released(ltask, ltask', t) =>
                 last_action_time[ltask[t].d.id] \notin 0..(MinPeerInterval - 1)
        /\ \A t \in DOMAIN dtask :
              Released(dtask, dtask', t) =>
                 last_action_time[dtask[t].d.id] \notin 0..(MinPeerInterval - 1) ]_vars

\* the records of the ledger with a status in S
WithStatus(S) == {i \in DOMAIN actions : actions[i].status \in S}

(* C14: the worked scenario: 5 groups, 2 channels, 3 direct chats and 10  *)
(* contacts, every transport call succeeding, end with groups_left=5,     *)
(* channels_left=2, histories_deleted=3, contacts_deleted=10, errors=0,   *)
(* skipped=0 and a ledger of 5+2+3 records, none of them for a contact.   *)
C14_Scenario ==
    pc = "returned" =>
        /\ result.success
        /\ stats.groups_left = ScenarioGroups
        /\ stats.channels_left = ScenarioChannels
        /\ stats.histories_deleted = ScenarioDirect
        /\ stats.contacts_deleted = ScenarioContacts
        /\ stats.errors = 0 /\ stats.skipped = 0
        /\ Len(actions) = ScenarioGroups + ScenarioChannels + ScenarioDirect
        /\ \A i \in DOMAIN actions :
              /\ actions[i].src[1] \in {"leave", "erase"}
              /\ actions[i].status = "success"
        /\ Cardinality({actions[i].d : i \in DOMAIN actions}) = Len(actions)

\* the scenario has run to its end, with basic groups and megagroups among
\* the groups
C14_Witness ==
    /\ pc = "returned" /\ stats.contacts_deleted = ScenarioContacts
    /\ Len(actions) = ScenarioGroups + ScenarioChannels + ScenarioDirect
    /\ \E i, j \in DOMAIN actions :
          actions[i].d.kind = "chat" /\ actions[j].d.kind = "megagroup"

(* C15: every record of the ledger accounts for exactly one increment of   *)
(* exactly one counter: while and after the leave and erase phases run,    *)
(* groups_left + channels_left + histories_deleted is the number of        *)
(* success and partial records, errors the number of failed records,       *)
(* skipped the number of skipped records, and these are all the records.   *)
C15_RecordAccounting ==
    pc \in {"leave_gather", "start_erase", "erase_gather", "start_contacts"} =>
        /\ stats.groups_left + stats.channels_left + stats.histories_deleted
             = Cardinality(WithStatus({"success", "partial"}))
        /\ stats.groups_left =
             Cardinality({i \in WithStatus({"success"}) : actions[i].chat_type = "group"})
        /\ stats.channels_left =
             Cardinality({i \in WithStatus({"success"}) : actions[i].chat_type = "channel"})
        /\ stats.errors = Cardinality(WithStatus({"failed"}))
        /\ stats.skipped = Cardinality(WithStatus({"skipped"}))
        /\ Len(actions) = stats.groups_left + stats.channels_left
                           + stats.histories_deleted + stats.errors + stats.skipped

(* C16: every counter of the statistics is monotonically non-decreasing:  *)
(* no step lowers groups_left, channels_left, histories_deleted,          *)
(* contacts_deleted, dialogs_closed, errors or skipped.                   *)
C16_CountersMonotone ==
    [][\A k \in DOMAIN stats : stats'[k] >= stats[k]]_vars

(* C17: the CSV and the JSON rendering of a report never disagree: the    *)
(* CSV is the header row and then one row per record of the ledger, in    *)
(* the order of the JSON actions list, each row with the chat_id, title,  *)
(* chat_type, actions_done joined by ', ', status, error and timestamp of *)
(* the JSON action at its place (an absent error is an empty cell).       *)
C17_CsvMatchesJson ==
    (pc = "returned" /\ result.success) =>
        LET csv == files.csv
            doc == files.json[1]
        IN  /\ Len(files.json) = 1
            /\ csv[1] = CsvHeader
            /\ Len(csv) = 1 + Len(actions)
            /\ Len(doc.actions) = Len(actions)
            /\ doc.statistics = stats
            /\ \A i \in DOMAIN actions :
                  LET row == csv[i + 1]
                      a == doc.actions[i]
                  IN  /\ a.chat_id = actions[i].chat_id
                      /\ a.timestamp = actions[i].timestamp
                      /\ row[1] = ToString(a.chat_id)
                      /\ row[2] = a.title
                      /\ row[3] = a.chat_type
                      /\ row[4] = Join(a.actions_done, ", ")
                      /\ row[5] = a.status
                      /\ row[6] = (IF a.error = None THEN "" ELSE a.error)
                      /\ row[7] = a.timestamp

\* a report of two records: one with an error, one with two sub-actions
C17_Witness ==
    /\ pc = "returned" /\ result.success /\ Len(files.csv) = 3
    /\ \E i, j \in 2..3 :
          /\ files.csv[i][6] = "Permission error: ChannelPrivateError"
          /\ files.csv[j][4] = "history_deleted, revoked"

Raised(before, after) ==
    /\ before.pc \in {"get_me", "request"}
    /\ Len(after.outs) = Len(before.outs) + 1
    /\ IsException(after.outs[Len(after.outs)])
\* the last request of an attempt of task t answers ok in this step
Succeeded(before, after) ==
    /\ before.pc = "request"
    /\ Len(after.outs) = Len(before.outs) + 1
    /\ after.outs[Len(after.outs)] = "ok"

\* the ledger grew by one record, that of task t of the phase, with status st
Recorded(phase, t, st) ==
    /\ Len(actions') = Len(actions) + 1
    /\ SubSeq(actions', 1, Len(actions)) = actions
    /\ actions'[Len(actions')].src = << phase, t >>
    /\ actions'[Len(actions')].status = st

\* a task that has left its try statement sends nothing and sleeps no more
Over(old, new) ==
    \A t \in DOMAIN old :
        (old[t].pc \in {"pace", "done"} /\ t \in DOMAIN new) =>
            /\ new[t].calls = old[t].calls
            /\ new[t].pc \in {"pace", "done"}
            /\ new[t].action = old[t].action

(* C19: when the single retry after a throttle signal fails, with a       *)
(* second throttle signal or any other exception, the record of the       *)
(* operation is failed, errors is incremented by exactly one and no other *)
(* counter changes, and no further wait or attempt follows.               *)
C19_RetryFails ==
    [][ /\ \A t \in DOMAIN ltask :
              (t \in DOMAIN ltask' /\ ltask[t].stage = "retry"
               /\ Raised(ltask[t], ltask'[t])) =>
                 /\ stats' = Inc(stats, "errors")
                 /\ Recorded("leave", t, "failed")
                 /\ ltask'[t].pc = "pace"
        /\ \A t \in DOMAIN dtask :
              (t \in DOMAIN dtask' /\ dtask[t].stage = "retry"
               /\ Raised(dtask[t], dtask'[t])) =>
                 /\ stats' = Inc(stats, "errors")
                 /\ Recorded("erase", t, "failed")
                 /\ dtask'[t].pc = "pace"
        /\ Over(ltask, ltask') /\ Over(dtask, dtask') ]_vars

\* a leave whose retry lost the connection and an erase whose retry was
\* throttled again, both recorded as failed
C19_Witness ==
    /\ stats.errors = 2 /\ stats.groups_left = 0 /\ stats.histories_deleted = 0
    /\ \E i, j \in DOMAIN actions :
          /\ actions[i].src[1] = "leave"
          /\ actions[i].error = "Retry failed: ConnectionError"
          /\ actions[j].src[1] = "erase"
          /\ actions[j].error = "Retry failed: FloodWaitError"
    /\ \A tk \in AllTasks : tk.pc = "done" /\ tk.rcalls >= 1

(* C20: when the first attempt is throttled and the single retry          *)
(* succeeds, the record is success with its sub-action appended once, the *)
(* kind-specific counter is incremented exactly once and errors is not    *)
(* incremented.                                                           *)
C20_RetrySucceeds ==
    [][ /\ \A t \in DOMAIN ltask :
              (t \in DOMAIN ltask' /\ ltask[t].stage = "retry"
               /\ Succeeded(ltask[t], ltask'[t])) =>
                 /\ stats' = Inc(stats, IF ltask[t].d.kind = "broadcast"
                                        THEN "channels_left" ELSE "groups_left")
                 /\ Recorded("leave", t, "success")
                 /\ actions'[Len(actions')].actions_done = << "left" >>
                 /\ actions'[Len(actions')].error = None
        /\ \A t \in DOMAIN dtask :
              (t \in DOMAIN dtask' /\ dtask[t].stage = "retry"
               /\ Succeeded(dtask[t], dtask'[t])) =>
                 /\ stats' = Inc(stats, "histories_deleted")
                 /\ Recorded("erase", t, "success")
                 /\ actions'[Len(actions')].actions_done = << "history_deleted" >>
                 /\ actions'[Len(actions')].error = None
        /\ Over(ltask, ltask') /\ Over(dtask, dtask') ]_vars

\* a basic group and a user, each throttled once and then done at the retry
C20_Witness ==
    /\ stats.errors = 0 /\ stats.groups_left = 1 /\ stats.histories_deleted = 1
    /\ \E t \in DOMAIN ltask :
          /\ ltask[t].d.kind = "chat" /\ ltask[t].pc = "done"
          /\ ltask[t].outs = << "ok", "FloodWaitError", "ok", "ok" >>
    /\ \E t \in DOMAIN dtask :
          /\ dtask[t].pc = "done" /\ dtask[t].stage = "retry"
          /\ dtask[t].action.actions_done = << "history_deleted" >>

\* the exceptions the permission handler of _leave_single_entity names
PermissionErrors ==
    {"ChatAdminRequiredError", "UserBannedInChannelError", "ChannelPrivateError"}

\* task t's first attempt is answered by a permission error in this step
Denied(before, after) ==
    /\ before.stage # "retry"
    /\ Raised(before, after)
    /\ after.outs[Len(after.outs)] \in PermissionErrors

(* C21 as stated: a permission error on a leave is not retried, exactly   *)
(* one transport call is made for the entity, the record is failed,       *)
(* errors is incremented and groups_left and channels_left are unchanged. *)
C21_DeniedOneCall ==
    [][ \A t \in DOMAIN ltask :
          (t \in DOMAIN ltask' /\ Denied(ltask[t], ltask'[t])) =>
             /\ ltask'[t].calls = 1
             /\ stats' = Inc(stats, "errors")
             /\ Recorded("leave", t, "failed") ]_vars

(* C21, amended: a permission error on the first attempt of a leave is    *)
(* not retried: the request that raised it is the last transport call for *)
(* the entity (the only one for a channel or megagroup, the second one,   *)
(* after get_me, for a basic group), the record is failed with the        *)
(* error's class name, errors is incremented by one and groups_left and   *)
(* channels_left are unchanged.                                           *)
C21_DeniedNoRetry ==
    [][ /\ \A t \in DOMAIN ltask :
              (t \in DOMAIN ltask' /\ Denied(ltask[t], ltask'[t])) =>
                 /\ ltask'[t].calls = (IF ltask[t].d.kind = "chat" THEN 2 ELSE 1)
                 /\ ltask'[t].rcalls = 0
                 /\ stats' = Inc(stats, "errors")
                 /\ Recorded("leave", t, "failed")
                 /\ actions'[Len(actions')].error =
                       "Permission error: " \o ltask'[t].outs[Len(ltask'[t].outs)]
                 /\ actions'[Len(actions')].actions_done = << >>
                 /\ ltask'[t].pc = "pace"
        /\ Over(ltask, ltask') ]_vars

\* a channel and a basic group both refused, two errors and nothing left
C21_Witness ==
    /\ stats.errors = 2 /\ stats.groups_left = 0 /\ stats.channels_left = 0
    /\ \E t, u \in DOMAIN ltask :
          /\ ltask[t].d.kind = "chat" /\ ltask[t].pc = "done"
          /\ ltask[t].outs = << "ok", "ChannelPrivateError" >>
          /\ ltask[t].calls = 2
          /\ ltask[u].d.kind # "chat" /\ ltask[u].pc = "done"
          /\ ltask[u].outs = << "ChannelPrivateError" >>
          /\ ltask[u].calls = 1
    /\ Len(actions) >= 2

\* task t's first attempt is answered by PeerIdInvalidError in this step
PeerGone(before, after) ==
    /\ before.stage # "retry"
    /\ Raised(before, after)
    /\ after.outs[Len(after.outs)] = "PeerIdInvalidError"

(* C22: for every kind of operation, Leave as well as EraseHistory, an    *)
(* invalid-peer error on the first attempt marks the record skipped and   *)
(* increments skipped, and errors is not incremented.                     *)
C22_InvalidPeerSkipped ==
    [][ /\ \A t \in DOMAIN ltask :
              (t \in DOMAIN ltask' /\ PeerGone(ltask[t], ltask'[t])) =>
                 /\ stats' = Inc(stats, "skipped")
                 /\ Recorded("leave", t, "skipped")
        /\ \A t \in DOMAIN dtask :
              (t \in DOMAIN dtask' /\ PeerGone(dtask[t], dtask'[t])) =>
                 /\ stats' = Inc(stats, "skipped")
                 /\ Recorded("erase", t, "skipped") ]_vars

\* the exceptions the inner handler of the revoking delete names
RevokeDenied == {"ChatWriteForbiddenError", "MessageDeleteForbiddenError"}

\* the last answer task tk received
LastOut(tk) == tk.outs[Len(tk.outs)]

(* C23 as stated: a permission error on the revoking delete falls back    *)
(* once to the non-revoking delete; if the fallback succeeds the record   *)
(* is partial and histories_deleted is incremented; if the fallback fails *)
(* with a permission error or another error the record is failed, errors  *)
(* is incremented and histories_deleted is unchanged.                     *)
C23_FallbackFailsAsFailed ==
    [][ \A t \in DOMAIN dtask :
          (t \in DOMAIN dtask' /\ dtask[t].stage = "fallback"
           /\ Raised(dtask[t], dtask'[t])) =>
             /\ stats' = Inc(stats, "errors")
             /\ Recorded("erase", t, "failed") ]_vars

(* C23, amended: with revoke requested, a permission error on the         *)
(* revoking delete falls back exactly once to the non-revoking delete,    *)
(* with no record and no counter changed in between.  If the fallback     *)
(* succeeds the record is partial, its error is 'Partial: only self       *)
(* messages deleted', its sub-actions are ['history_deleted'] and         *)
(* histories_deleted is incremented.  If the fallback fails with a        *)
(* permission error or an error that is neither a throttle signal nor an  *)
(* invalid peer, the record is failed with the error's text, errors is    *)
(* incremented and histories_deleted is unchanged; an invalid peer on the *)
(* fallback gives a skipped record and a throttle signal the wait and the *)
(* single retry.                                                          *)
C23_Fallback ==
    [][ \A t \in DOMAIN dtask :
          t \in DOMAIN dtask' =>
            LET old == dtask[t]
                new == dtask'[t]
            IN  /\ (old.stage = "revoke" /\ Raised(old, new)
                    /\ LastOut(new) \in RevokeDenied) =>
                       /\ new.stage = "fallback" /\ new.pc = "request"
                       /\ new.calls = 2
                       /\ UNCHANGED << stats, actions >>
                /\ (new.stage = "fallback" /\ old.stage # "fallback") =>
                       /\ revoke_default
                       /\ old.stage = "revoke" /\ Len(new.outs) = 1
                /\ (old.stage = "fallback" /\ Succeeded(old, new)) =>
                       /\ stats' = Inc(stats, "histories_deleted")
                       /\ Recorded("erase", t, "partial")
                       /\ actions'[Len(actions')].error =
                             "Partial: only self messages deleted"
                       /\ actions'[Len(actions')].actions_done = << "history_deleted" >>
                /\ (old.stage = "fallback" /\ Raised(old, new)) =>
                       CASE LastOut(new) = "FloodWaitError" ->
                              /\ new.pc = "flood_sleep"
                              /\ UNCHANGED << stats, actions >>
                         [] LastOut(new) = "PeerIdInvalidError" ->
                              /\ stats' = Inc(stats, "skipped")
                              /\ Recorded("erase", t, "skipped")
                         [] OTHER ->
                              /\ stats' = Inc(stats, "errors")
                              /\ Recorded("erase", t, "failed")
                              /\ actions'[Len(actions')].error = LastOut(new)
                              /\ actions'[Len(actions')].actions_done = << >> ]_vars

\* one history erased one-sidedly after the fallback, another refused twice
C23_Witness ==
    /\ revoke_default
    /\ stats.histories_deleted = 1 /\ stats.errors = 1
    /\ \E t, u \in DOMAIN dtask :
          /\ dtask[t].pc = "done" /\ dtask[t].action.status = "partial"
          /\ dtask[t].outs = << "ChatWriteForbiddenError", "ok" >>
          /\ dtask[u].pc = "done" /\ dtask[u].action.status = "failed"
          /\ dtask[u].outs = << "ChatWriteForbiddenError", "ChatWriteForbiddenError" >>
    /\ \E i \in DOMAIN actions :
          /\ actions[i].status = "partial"
          /\ actions[i].actions_done = << "history_deleted" >>

\* the errors that have a handler of their own in some operation: throttle,
\* permission and invalid peer
Classified ==
    {"FloodWaitError", "PeerIdInvalidError"} \cup PermissionErrors \cup RevokeDenied

\* task t's first attempt is answered by an error of no named class in this step
Unclassified(before, after) ==
    /\ before.stage \in {"first", "revoke", "plain"}
    /\ Raised(before, after)
    /\ LastOut(after) \notin Classified

(* C24: any error on the first attempt that is not a throttle signal, a   *)
(* permission error or an invalid peer marks the record failed,           *)
(* increments errors by one and stores the error's description unchanged; *)
(* it is never propagated out of the operation.                           *)
C24_OtherErrorFailed ==
    [][ /\ \A t \in DOMAIN ltask :
              (t \in DOMAIN ltask' /\ Unclassified(ltask[t], ltask'[t])) =>
                 /\ stats' = Inc(stats, "errors")
                 /\ Recorded("leave", t, "failed")
                 /\ actions'[Len(actions')].error = Str(LastOut(ltask'[t]))
                 /\ ltask'[t].exc = None
                 /\ ltask'[t].pc = "pace"
        /\ \A t \in DOMAIN dtask :
              (t \in DOMAIN dtask' /\ Unclassified(dtask[t], dtask'[t])) =>
                 /\ stats' = Inc(stats, "errors")
                 /\ Recorded("erase", t, "failed")
                 /\ actions'[Len(actions')].error = Str(LastOut(dtask'[t]))
                 /\ dtask'[t].exc = None
                 /\ dtask'[t].pc = "pace" ]_vars

\* a basic group whose get_me lost the connection and a history whose delete
\* did, both failed with the error's text, and the run returned success
C24_Witness ==
    /\ pc = "returned" /\ result.success
    /\ stats.errors = 2
    /\ \E t \in DOMAIN ltask : ltask[t].outs = << "ConnectionError" >>
    /\ \E t \in DOMAIN dtask : dtask[t].outs = << "ConnectionError" >>
    /\ \A i \in DOMAIN actions :
          actions[i].status = "failed" /\ actions[i].error = "ConnectionError"
    /\ Len(actions) = 2

\* the positions of run inside _archive_remaining_dialogs
ArchivePcs ==
    {"archive_get_dialogs", "archive_call", "archive_sleep", "archive_flood_sleep",
     "archive_retry"}

(* C25: the archive phase is best-effort: whatever fails in it, errors    *)
(* (and every counter but dialogs_closed) is unchanged, no record is      *)
(* appended to the ledger and the run's result is not changed; only a     *)
(* cancellation ends the run there, and a run that reaches its report     *)
(* returns success.                                                       *)
C25_ArchiveBestEffort ==
    [][ /\ pc \in ArchivePcs =>
              /\ stats' = [stats EXCEPT !.dialogs_closed = stats'.dialogs_closed]
              /\ actions' = actions
              /\ result' = result
              /\ pc' \in ArchivePcs \cup {"report", "raised"}
              /\ pc' = "raised" => cancelled'
        /\ (pc = "report" /\ pc' = "returned") => result'.success ]_vars

\* one dialog was left without error, then edit_folder failed for the only
\* dialog of the archive phase, first throttled and then refused: the run
\* returned success with no error counted and no record for it
C25_Witness ==
    /\ pc = "returned" /\ result.success /\ ~dry_run
    /\ archive.n = 1 /\ archive.i = 2 /\ archive.archived_count = 0
    /\ stats.dialogs_closed = 0 /\ stats.errors = 0
    /\ Len(actions) = 1 /\ actions[1].status = "success"

(* C26: the counters and the ledger belong to one run: every call of run, *)
(* also a second one on the same cleaner, starts with all counters zero   *)
(* and an empty ledger, and the ledger (so the report) holds only records *)
(* of the current run.                                                    *)
C26_StatePerRun ==
    /\ pc = "get_dialogs" => (stats = ZeroStats /\ actions = << >>)
    /\ \A i \in DOMAIN actions : actions[i].run = env.run

\* the tasks of a phase whose record has one of the statuses S
TasksWith(tasks, S) == {t \in DOMAIN tasks : tasks[t].action.status \in S}

\* the tasks of a phase that ran their finally clause
PastFinally(tasks) ==
    {t \in DOMAIN tasks : tasks[t].pc \in {"pace", "done"}
                          /\ tasks[t].action.timestamp # ""}

(* C27: the updates of the shared counters and of the ledger are atomic   *)
(* with respect to task switching: no increment and no append is lost,    *)
(* every counter equals the number of increments the tasks performed      *)
(* (one per task that set the matching status on its own record) and the  *)
(* ledger has one record per task that ran its finally clause.            *)
C27_NoLostUpdate ==
    /\ stats.groups_left =
         Cardinality({t \in TasksWith(ltask, {"success"}) :
                         ltask[t].action.chat_type = "group"})
    /\ stats.channels_left =
         Cardinality({t \in TasksWith(ltask, {"success"}) :
                         ltask[t].action.chat_type = "channel"})
    /\ stats.histories_deleted = Cardinality(TasksWith(dtask, {"success", "partial"}))
    /\ stats.skipped = Cardinality(TasksWith(ltask, {"skipped"}))
                        + Cardinality(TasksWith(dtask, {"skipped"}))
    /\ LET failed == Cardinality(TasksWith(ltask, {"failed"}))
                      + Cardinality(TasksWith(dtask, {"failed"}))
       IN  IF pc \in {"get_dialogs", "start_leave", "leave_gather", "start_erase",
                      "erase_gather", "start_contacts"}
           THEN stats.errors = failed
           ELSE stats.errors >= failed
    /\ Len(actions) = Cardinality(PastFinally(ltask)) + Cardinality(PastFinally(dtask))
    /\ \A t \in PastFinally(ltask) : Cardinality(RecordsOf("leave", t)) = 1
    /\ \A t \in PastFinally(dtask) : Cardinality(RecordsOf("erase", t)) = 1

\* two leaves that ran side by side, both past their request and in their
\* pacing sleep at once, both counted and both recorded
C27_Witness ==
    /\ pc = "leave_gather"
    /\ Len(ltask) = 2
    /\ \A t \in DOMAIN ltask :
          ltask[t].pc = "pace" /\ ltask[t].action.status = "success"
    /\ stats.groups_left = 2
    /\ Len(actions) = 2

\* the ledger's record rec is the action object a, field for field
SameAction(rec, a) == \A f \in DOMAIN a : rec[f] = a[f]

\* the ledger holds the task's own action object: once appended, the record
\* reads as the task's action reads
Aliased(phase, tasks) ==
    \A t \in PastFinally(tasks) :
        \A i \in RecordsOf(phase, t) : SameAction(actions[i], tasks[t].action)

(* C28: a record of the ledger is never removed, replaced or reordered,   *)
(* and no field of it changes once it is appended (the action object the  *)
(* ledger refers to is not written after the append): the ledger only     *)
(* grows, by appends at its end.                                          *)
C28_LedgerAppendOnly ==
    [][ /\ Len(actions') \in {Len(actions), Len(actions) + 1}
        /\ SubSeq(actions', 1, Len(actions)) = actions
        /\ Aliased("leave", ltask)' /\ Aliased("erase", dtask)'
        /\ Over(ltask, ltask') /\ Over(dtask, dtask') ]_vars

\* a ledger of two records, the first of the leave phase and the second of
\* the erase phase, at the end of a run that saved its report
C28_Witness ==
    /\ pc = "returned" /\ result.success
    /\ Len(actions) = 2
    /\ actions[1].src = << "leave", 1 >> /\ actions[1].status = "success"
    /\ actions[1].actions_done = << "left" >>
    /\ actions[2].src = << "erase", 1 >> /\ actions[2].status = "partial"

\* task t calls _wait_for_rate_limit in this step
EntersGate(old, new) ==
    /\ old.pc = "waiting"
    /\ new.pc \in {"rate_wait", "get_me", "request"}

\* what _wait_for_rate_limit does with a caller for identifier id depends on
\* the release time of id alone
GateByOwnId(old, new) ==
    LET id == old.d.id
        own == last_action_time[id]
    IN  EntersGate(old, new) =>
          /\ (own = -1 \/ own >= MinPeerInterval) =>
                /\ new.pc \in {"get_me", "request"}
                /\ last_action_time'[id] = 0
          /\ (own >= 0 /\ own < MinPeerInterval) =>
                /\ new.pc = "rate_wait"
                /\ new.timer = MinPeerInterval - own
          /\ \A j \in DOMAIN last_action_time :
                j # id => last_action_time'[j] = last_action_time[j]

(* C29: the rate gate does not serialize unrelated identifiers: whether   *)
(* and how long a caller waits depends on the last release of its own     *)
(* identifier only, so a call for one identifier is never delayed by a    *)
(* pending or recent call for a different one, and a release leaves the   *)
(* release times of the other identifiers alone.                          *)
C29_GatePerIdentifier ==
    [][ /\ \A t \in DOMAIN ltask :
              t \in DOMAIN ltask' => GateByOwnId(ltask[t], ltask'[t])
        /\ \A t \in DOMAIN dtask :
              t \in DOMAIN dtask' => GateByOwnId(dtask[t], dtask'[t]) ]_vars

\* two leaves for different identifiers released in the same instant: both
\* have sent a request and both release times are zero old
C29_Witness ==
    \E t, u \in DOMAIN ltask :
        /\ ltask[t].d.id # ltask[u].d.id
        /\ ltask[t].pc \in {"get_me", "request"} /\ ltask[t].since = -1
        /\ ltask[u].pc = "request" /\ ltask[u].since = -1
        /\ last_action_time[ltask[t].d.id] = 0
        /\ last_action_time[ltask[u].d.id] = 0

(* ----------------------------------------------------------- progress *)
\* run is over: it returned a result or raised
Done == pc \in {"returned", "raised"}

\* every step but the cancellation from outside: what the event loop, the
\* transport and the clock do on their own
Progress ==
    \/ GetDialogsReturns
    \/ StartLeave
    \/ \E t \in DOMAIN ltask : LeaveAcquire(t)
    \/ \E t \in DOMAIN ltask : LeaveRateWaitDone(t)
    \/ \E t \in DOMAIN ltask : LeaveCallReturns(t)
    \/ \E t \in DOMAIN ltask : LeaveFloodSleepDone(t)
    \/ \E t \in DOMAIN ltask : LeavePaceDone(t)
    \/ \E t \in DOMAIN ltask : LeaveCancelled(t)
    \/ LeaveGatherReturns
    \/ StartErase
    \/ \E t \in DOMAIN dtask : EraseAcquire(t)
    \/ \E t \in DOMAIN dtask : EraseRateWaitDone(t)
    \/ \E t \in DOMAIN dtask : EraseCallReturns(t)
    \/ \E t \in DOMAIN dtask : EraseFloodSleepDone(t)
    \/ \E t \in DOMAIN dtask : ErasePaceDone(t)
    \/ \E t \in DOMAIN dtask : EraseCancelled(t)
    \/ EraseGatherReturns
    \/ StartContacts
    \/ GetContactsReturns
    \/ DeleteBatchReturns
    \/ BatchSleepDone
    \/ BatchFloodSleepDone
    \/ BatchRetryReturns
    \/ StartArchive
    \/ ArchiveGetDialogsReturns
    \/ ArchiveCallReturns
    \/ ArchiveSleepDone
    \/ ArchiveFloodSleepDone
    \/ ArchiveRetryReturns
    \/ SaveReports
    \/ Tick

\* one run under fair scheduling: every transport call answers, every sleep
\* elapses and the event loop runs what is ready; a cancellation may or may
\* not come
FairSpec == Init /\ [][Next]_vars /\ WF_vars(Progress)

\* the attempts of one operation are bounded: at most one fallback, at most
\* one retry, so at most three requests (and get_me before each request to a
\* basic group)
BoundedAttempts ==
    \A tk \in AllTasks :
        /\ tk.rcalls <= (IF tk.d.kind = "chat" THEN 2 ELSE 1)
        /\ tk.calls <= (IF tk.d.kind = "chat" THEN 4 ELSE 3)
        /\ Len(tk.outs) <= tk.calls + 1
        /\ Cardinality({k \in DOMAIN tk.outs : tk.outs[k] = "FloodWaitError"}) <= 2
        /\ Cardinality({k \in DOMAIN tk.outs : tk.outs[k] \in RevokeDenied}) <= 2

(* C30: run terminates: for every finite worklist, when every transport   *)
(* call answers or raises and every sleep elapses, under fair scheduling  *)
(* run eventually returns (or, cancelled from outside, ends by raising    *)
(* CancelledError); the retry and the fallback happen at most once per    *)
(* operation, so the attempts of every operation are bounded.             *)
C30_Terminates ==
    /\ []BoundedAttempts
    /\ <>Done
    /\ <>(pc = "returned" \/ cancelled)

\* a run that ended after an operation used its fallback, was throttled on
\* it and made its single retry: three requests, the most one operation sends
C30_Witness ==
    /\ pc = "returned" /\ ~cancelled
    /\ \E t \in DOMAIN dtask :
          /\ dtask[t].calls = 3 /\ dtask[t].rcalls = 1 /\ dtask[t].pc = "done"
          /\ dtask[t].outs[1] = "ChatWriteForbiddenError"
          /\ dtask[t].outs[2] = "FloodWaitError"

\* the elements of a sequence
Range(s) == {s[k] : k \in DOMAIN s}

(* C31: with revoke_default true, every record of the erase phase with    *)
(* status success lists 'revoked' among its sub-actions: a history        *)
(* deleted without revoke (also by the non-revoking retry after a         *)
(* throttle signal) is never reported as success.                         *)
C31_SuccessMeansRevoked ==
    revoke_default =>
        \A i \in DOMAIN actions :
            (actions[i].src[1] = "erase" /\ actions[i].status = "success") =>
                "revoked" \in Range(actions[i].actions_done)

\* the ledger records with a sub-action list that is not empty
Acted == {i \in DOMAIN actions : actions[i].actions_done # << >>}

(* C32 as stated: status is success or partial exactly when the           *)
(* sub-action list is not empty; a success record has no error; a         *)
(* partial, failed or skipped record has a non-empty error description;   *)
(* a failed or skipped record has an empty sub-action list.               *)
C32_RecordConsistentNonEmpty ==
    \A i \in DOMAIN actions :
        /\ (actions[i].status \in {"success", "partial"}) <=> (i \in Acted)
        /\ actions[i].status = "success" => actions[i].error = None
        /\ actions[i].status \in {"partial", "failed", "skipped"} =>
              (actions[i].error # None /\ actions[i].error # "")
        /\ actions[i].status \in {"failed", "skipped"} =>
              actions[i].actions_done = << >>

(* C32, amended: status is success or partial exactly when the sub-action *)
(* list is not empty; a success record (and a pending one) has no error;  *)
(* a partial, failed or skipped record has an error description, which is *)
(* not empty for a partial record, a skipped record, a permission error   *)
(* and a failed retry, and is str(e), possibly the empty string, for any  *)
(* other failure; a failed or skipped record has an empty sub-action      *)
(* list.                                                                  *)
C32_RecordConsistent ==
    \A i \in DOMAIN actions :
        LET a == actions[i] IN
        /\ (a.status \in {"success", "partial"}) <=> (i \in Acted)
        /\ a.status \in {"success", "pending"} => a.error = None
        /\ a.status \in {"partial", "failed", "skipped"} => a.error # None
        /\ a.status = "partial" => a.error = "Partial: only self messages deleted"
        /\ a.status = "skipped" => a.error = "Invalid peer"
        /\ a.status = "failed" =>
              \/ a.error \in {Str(e) : e \in TransportErrors}
              \/ \E e \in TransportErrors : a.error = "Retry failed: " \o Str(e)
              \/ \E e \in PermissionErrors : a.error = "Permission error: " \o e
        /\ a.status \in {"failed", "skipped", "pending"} => a.actions_done = << >>

\* a ledger with a failed record whose error is the empty description, next
\* to a success record of the leave phase
C32_Witness ==
    /\ Len(actions) = 2
    /\ actions[1].status = "success" /\ actions[1].actions_done = << "left" >>
    /\ actions[2].status = "failed" /\ actions[2].error = ""
    /\ actions[2].actions_done = << >>

\* every slot of the lanes whose phase has drained is free again
SlotsReturned ==
    /\ AfterLeave => leave_semaphore = LeaveConcurrency
    /\ AfterErase => delete_semaphore = DeleteHistoryConcurrency
    /\ pc \in ArchivePcs \cup {"start_archive", "report"} =>
          contacts_semaphore = DeleteContactsConcurrency
    /\ Done =>
          /\ leave_semaphore = LeaveConcurrency
          /\ delete_semaphore = DeleteHistoryConcurrency
          /\ contacts_semaphore = DeleteContactsConcurrency
          /\ \A tk \in AllTasks : tk.pc = "done"

\* no task is waiting for a slot
NoneWaiting == \A tk \in AllTasks : tk.pc # "waiting"

(* C33: every lane slot taken is given back: whenever a phase has drained *)
(* and at the end of the run (returned or raised) each semaphore is back  *)
(* at its configured capacity, whatever the operations raised and also    *)
(* when they were cancelled; no operation waits for ever for a slot.      *)
C33_SlotsGivenBack ==
    /\ []SlotsReturned
    /\ <>[](Done /\ NoneWaiting)

\* the end of a run whose leave task and erase task both failed: all slots
\* are back
C33_Witness ==
    /\ pc = "returned" /\ result.success
    /\ Len(ltask) = 1 /\ Len(dtask) = 1
    /\ ltask[1].pc = "done" /\ ltask[1].action.status = "failed"
    /\ dtask[1].pc = "done" /\ dtask[1].action.status = "failed"
    /\ leave_semaphore = LeaveConcurrency
    /\ delete_semaphore = DeleteHistoryConcurrency
    /\ contacts_semaphore = DeleteContactsConcurrency

(* C34: once the first get_dialogs has answered, no failure inside the    *)
(* four phases makes a non-dry run return success = False: a run that     *)
(* returns after that point returns from its report step, after the four  *)
(* phases, with success = True, also when every operation, the contact    *)
(* listing and the archive listing failed; a failure result comes from    *)
(* the first get_dialogs only.                                            *)
C34_PhasesNeverFailRun ==
    [][ /\ (pc # "get_dialogs" /\ pc' = "returned" /\ pc # "returned") =>
              /\ pc = "report"
              /\ result'.success
        /\ (pc' = "returned" /\ ~result'.success) =>
              (pc \in {"get_dialogs", "returned"} /\ ltask' = << >> /\ dtask' = << >>) ]_vars

\* a run that returned success although its only leave failed, the contact
\* listing failed and the archive listing failed
C34_Witness ==
    /\ pc = "returned" /\ result.success /\ ~dry_run /\ ~cancelled
    /\ Len(ltask) = 1 /\ ltask[1].action.status = "failed"
    /\ stats.errors = 2 /\ stats.contacts_deleted = 0 /\ contacts.n = 0
    /\ archive.i = 0 /\ stats.dialogs_closed = 0

\* a batch is closed as deleted: contacts_deleted grows by its size
BatchDeleted ==
    /\ stats' = Add(stats, "contacts_deleted", Min(BatchSize, contacts.n - contacts.i))
    /\ pc' \in {"batch_sleep", "delete_batch", "start_archive"}

\* a batch is closed as failed: errors grows by one, the loop goes on with the
\* next batch if there is one
BatchFailed ==
    /\ stats' = Inc(stats, "errors")
    /\ contacts' = [contacts EXCEPT !.i = @ + BatchSize]
    /\ pc' = IF contacts.i + BatchSize < contacts.n THEN "delete_batch"
                                                     ELSE "start_archive"

\* no answer in this step: the task of run is cancelled while it waits, or time
\* passes while it waits
ContactsNoAnswer ==
    \/ cancelled' /\ pc' = "raised" /\ stats' = stats
    \/ pc' = pc /\ stats' = stats /\ contacts' = contacts

(* C35: contact removal by batches: contacts_deleted grows by the size of *)
(* a batch exactly when the batch's delete call, first attempt or the     *)
(* single retry after a throttle signal, succeeds; a batch that fails     *)
(* increments errors by exactly one whatever its size and the next batch  *)
(* is still attempted; a failure to list the contacts increments errors   *)
(* by one and leaves contacts_deleted unchanged; the phase appends no     *)
(* record to the ledger.                                                  *)
C35_ContactBatches ==
    [][ /\ InContacts => actions' = actions
        /\ pc = "get_contacts" =>
              \/ stats' = stats /\ pc' \in {"delete_batch", "start_archive"}
              \/ /\ stats' = Inc(stats, "errors") /\ pc' = "start_archive"
                 /\ contacts' = contacts
              \/ ContactsNoAnswer
        /\ pc = "delete_batch" =>
              \/ BatchDeleted
              \/ BatchFailed
              \/ stats' = stats /\ pc' = "batch_flood_sleep" /\ contacts' = contacts
              \/ ContactsNoAnswer
        /\ pc = "batch_retry" =>
              \/ BatchDeleted /\ pc' # "batch_sleep"
              \/ BatchFailed
              \/ ContactsNoAnswer
        /\ pc \in {"batch_sleep", "batch_flood_sleep"} => stats' = stats
        /\ stats'.contacts_deleted <= contacts'.n ]_vars

\* 101 contacts in two batches: the batch of 100 failed and counts as one
\* error, the batch of one was throttled and deleted by its retry
C35_Witness ==
    /\ pc = "returned" /\ result.success
    /\ contacts.n = BatchSize + 1
    /\ stats.contacts_deleted = 1 /\ stats.errors = 1
    /\ actions = << >>

\* the loop of the archive phase goes on to the next dialog; the dialog just
\* handled counts as archived (by = 1) or not (by = 0)
ArchiveMovesOn(by) ==
    /\ archive'.i = archive.i + 1
    /\ archive'.n = archive.n
    /\ archive'.archived_count = archive.archived_count + by
    /\ pc' = IF archive.i + 1 <= archive.n THEN "archive_call" ELSE "report"

\* no answer in this step: run is cancelled while it waits, or time passes
ArchiveNoAnswer ==
    \/ cancelled' /\ pc' = "raised" /\ archive' = archive /\ stats' = stats
    \/ pc' = pc /\ archive' = archive /\ stats' = stats

(* C36: in the archive phase the dialogs are archived one after another   *)
(* (one edit_folder call in flight, for the dialog at the loop's index),  *)
(* each dialog receives at most two calls, the second only after a        *)
(* throttle signal on the first, and when the listing succeeded           *)
(* dialogs_closed at the end of the phase is the number of dialogs whose  *)
(* first call or retry succeeded.                                         *)
C36_ArchiveLoop ==
    [][ /\ pc = "archive_call" =>
              \/ /\ pc' = "archive_sleep" /\ archive'.i = archive.i
                 /\ archive'.archived_count = archive.archived_count + 1
              \/ pc' = "archive_flood_sleep" /\ archive' = archive
              \/ ArchiveMovesOn(0)
              \/ ArchiveNoAnswer
        /\ pc = "archive_flood_sleep" =>
              \/ pc' = "archive_retry" /\ archive' = archive
              \/ ArchiveNoAnswer
        /\ pc = "archive_retry" =>
              \/ ArchiveMovesOn(1)
              \/ ArchiveMovesOn(0)
              \/ ArchiveNoAnswer
        /\ pc = "archive_sleep" =>
              \/ ArchiveMovesOn(0)
              \/ ArchiveNoAnswer
        /\ pc' \in ArchivePcs \ {"archive_get_dialogs"} =>
              /\ archive'.i \in 1..archive'.n
              /\ archive'.archived_count <= archive'.i
        /\ (pc \in ArchivePcs /\ pc' = "report" /\ archive'.i >= 1) =>
              /\ stats'.dialogs_closed = archive'.archived_count
              /\ archive'.i = archive'.n + 1 \/ archive'.n = 0 ]_vars

\* two dialogs listed: one could not be archived, the other was archived,
\* and dialogs_closed is one at the end of the phase
C36_Witness ==
    /\ pc = "report" /\ ~dry_run
    /\ archive.n = 2 /\ archive.i = 3 /\ archive.archived_count = 1
    /\ stats.dialogs_closed = 1

(* C37 as stated: at most 2 transport calls for one entity in the leave   *)
(* phase and at most 3 in the erase phase.                                *)
C37_CallBounds ==
    /\ \A t \in DOMAIN ltask : ltask[t].calls <= 2
    /\ \A t \in DOMAIN dtask : dtask[t].calls <= 3

\* the requests of an entity other than get_me
Requests(tk) == IF tk.d.kind = "chat" THEN (tk.calls + 1) \div 2 ELSE tk.calls

(* C37, amended: the transport calls for one entity in one phase are      *)
(* bounded: a leave makes at most 2 attempts (the first and the throttle  *)
(* retry), each one request, preceded by get_me for a basic group, so at  *)
(* most 2 calls for a channel or supergroup and 4 for a basic group; an   *)
(* erase makes at most 3 requests (revoking attempt, non-revoking         *)
(* fallback, throttle retry).  A throttle signal on the fallback is       *)
(* handled by the same single retry, and a permission error raised by the *)
(* retry fails the record with no further fallback.                       *)
C37_AttemptBounds ==
    [][ /\ \A t \in DOMAIN ltask' :
              /\ ltask'[t].calls <= (IF ltask'[t].d.kind = "chat" THEN 4 ELSE 2)
              /\ Requests(ltask'[t]) <= 2
        /\ \A t \in DOMAIN dtask' :
              /\ dtask'[t].calls <= 3
              /\ dtask'[t].calls <= (IF revoke_default THEN 3 ELSE 2)
        /\ \A t \in DOMAIN dtask :
              t \in DOMAIN dtask' =>
                LET old == dtask[t]
                    new == dtask'[t]
                IN  /\ (old.stage = "fallback" /\ Raised(old, new)
                        /\ LastOut(new) = "FloodWaitError") =>
                           new.pc = "flood_sleep" /\ new.rcalls = 0
                    /\ (old.pc = "flood_sleep" /\ new.pc = "request") =>
                           new.stage = "retry" /\ new.rcalls = 1
                    /\ (old.stage = "retry" /\ Raised(old, new)) =>
                           /\ new.pc = "pace" /\ new.stage = "retry"
                           /\ new.calls = old.calls
                           /\ new.action.status = "failed"
                           /\ new.action.error = "Retry failed: " \o Str(LastOut(new)) ]_vars

\* an erase that used its three requests, the retry refused for lack of
\* permission, next to a basic group that made four calls
C37_Witness ==
    /\ \E t \in DOMAIN dtask :
          /\ dtask[t].pc = "done" /\ dtask[t].calls = 3
          /\ dtask[t].outs = << "ChatWriteForbiddenError", "FloodWaitError",
                                "ChatWriteForbiddenError" >>
          /\ dtask[t].action.error = "Retry failed: ChatWriteForbiddenError"
    /\ \E t \in DOMAIN ltask :
          /\ ltask[t].d.kind = "chat" /\ ltask[t].calls = 4 /\ ltask[t].pc = "done"

(* ------------------------------------------------------------------ C38 *)
\* log_out was called on the old session
LoggedOut == "log_out" \in Names(reauth.old_client)

\* the failures that recreate_session returns before the new session is
\* confirmed: old session unauthorized, no code, 2FA password missing, an
\* exception of sign_in
EarlyFailures ==
    {"old session unauthorized", "no verification code", "2FA password missing",
     "failed: sign_in"}

\* C38: in every state of recreate_session, log_out was called on the old
\* session only if the new client has signed in and is_user_authorized has
\* confirmed it; and whenever the call returns one of the early failures
\* (old session unauthorized, no verification code, 2FA password missing,
\* sign-in error), or any failure before the confirmation, log_out was never
\* called on the old session; log_out is called at most once.
C38_LogOutAfterConfirmed ==
    /\ LoggedOut => SignedIn /\ Confirmed
    /\ reauth.result.why \in EarlyFailures => ~LoggedOut
    /\ (reauth.pc \in {"finally", "returned"} /\ ~Confirmed) =>
         ~reauth.result.ok /\ ~LoggedOut
    /\ Cardinality({k \in DOMAIN reauth.old_client :
                      reauth.old_client[k][1] = "log_out"}) <= 1

\* recreate_session returned success after a sign-in with the 2FA password,
\* and the old session was logged out
C38_Witness ==
    /\ reauth.pc = "returned"
    /\ reauth.result.ok
    /\ << "sign_in_password", "ok" >> \in
         {reauth.new_client[k] : k \in DOMAIN reauth.new_client}
    /\ LoggedOut

====
